---- MODULE Spec2Model ----
(***************************************************************************)
(* LUKAS_Bibliothek: the catalog clean-up tools (cleanup_gibberish.py,     *)
(* quarantine_gibberish.py) and the entity matcher                         *)
(* (enhance_candidates_with_matching.py) as state machines.                *)
(*                                                                         *)
(* Texts are sequences of one-character strings.  A database NULL / Python *)
(* None text is the one-element sequence None, which is no character.      *)
(* An optional integer (publication_year) is the empty set for NULL and    *)
(* the singleton {y} for the value y.                                      *)
(***************************************************************************)
EXTENDS Integers, Sequences, FiniteSets, TLC

\* ------------------------------------------------------------------------
\* Characters
\* ------------------------------------------------------------------------

Upper == {"A","B","C","D","E","F","G","H","I","J","K","L","M",
          "N","O","P","Q","R","S","T","U","V","W","X","Y","Z"}

Lower == {"a","b","c","d","e","f","g","h","i","j","k","l","m",
          "n","o","p","q","r","s","t","u","v","w","x","y","z"}

Digits == {"0","1","2","3","4","5","6","7","8","9"}

\* [AEIOUYÄÖÜaeiouyäöü] restricted to the ASCII letters of the modelled texts
Vowels == {"A","E","I","O","U","Y","a","e","i","o","u","y"}

\* [A-Za-zÄÖÜäöüß] restricted to ASCII
Letters == Upper \cup Lower

Whitespace == {" "}

\* the punctuation the special-character class lets through: ,.'-()!?
CommonPunct == {",", ".", "'", "-", "(", ")", "!", "?"}

\* [^A-Za-zÄÖÜäöüß0-9\s,.'\-()!?]
IsSpecial(c) == c \notin (Letters \cup Digits \cup Whitespace \cup CommonPunct)

None == << "None" >>

LowerOf(c) ==
    CASE c = "A" -> "a" [] c = "B" -> "b" [] c = "C" -> "c" [] c = "D" -> "d"
      [] c = "E" -> "e" [] c = "F" -> "f" [] c = "G" -> "g" [] c = "H" -> "h"
      [] c = "I" -> "i" [] c = "J" -> "j" [] c = "K" -> "k" [] c = "L" -> "l"
      [] c = "M" -> "m" [] c = "N" -> "n" [] c = "O" -> "o" [] c = "P" -> "p"
      [] c = "Q" -> "q" [] c = "R" -> "r" [] c = "S" -> "s" [] c = "T" -> "t"
      [] c = "U" -> "u" [] c = "V" -> "v" [] c = "W" -> "w" [] c = "X" -> "x"
      [] c = "Y" -> "y" [] c = "Z" -> "z" [] OTHER -> c

\* str.lower() / SQL LOWER()
lower(s) == [i \in 1..Len(s) |-> LowerOf(s[i])]

RECURSIVE LStrip(_)
LStrip(s) == IF s # <<>> /\ Head(s) \in Whitespace THEN LStrip(Tail(s)) ELSE s

RECURSIVE RStrip(_)
RStrip(s) ==
    IF s # <<>> /\ s[Len(s)] \in Whitespace
    THEN RStrip(SubSeq(s, 1, Len(s) - 1))
    ELSE s

\* str.strip()
strip(s) == RStrip(LStrip(s))

\* len(re.findall(<one-character class>, s))
CountIn(s, class) == Cardinality({i \in 1..Len(s) : s[i] \in class})

CountSpecials(s) == Cardinality({i \in 1..Len(s) : IsSpecial(s[i])})

\* s.count(c) for a one-character c
CountChar(s, c) == Cardinality({i \in 1..Len(s) : s[i] = c})

RECURSIVE SplitWs(_, _)
SplitWs(s, cur) ==
    IF s = <<>> THEN << cur >>
    ELSE IF Head(s) \in Whitespace
         THEN << cur >> \o SplitWs(LStrip(s), <<>>)
         ELSE SplitWs(Tail(s), Append(cur, Head(s)))

\* re.split(r"\s+", s)
re_split_ws(s) == SplitWs(s, <<>>)

\* s contains sub as a contiguous substring starting at an index >= from
FindFrom(s, sub, from) ==
    LET hits == {i \in from..(Len(s) - Len(sub) + 1) :
                    SubSeq(s, i, i + Len(sub) - 1) = sub}
    IN  IF hits = {} THEN 0 ELSE CHOOSE i \in hits : \A j \in hits : i <= j

\* ------------------------------------------------------------------------
\* Text quality classifier
\* ------------------------------------------------------------------------

\* a token of length >= 12 without a vowel
LongVowellessToken(tokens) ==
    \E k \in 1..Len(tokens) :
        Len(tokens[k]) >= 12 /\ CountIn(tokens[k], Vowels) = 0

\* a cleanup scorer that runs the heuristics on a blank text as on any other
cleanup_score_blank_unchecked(text) ==
    IF text = None THEN 3
    ELSE LET s == strip(text) IN
           (IF Len(s) >= 12 /\ CountIn(s, Vowels) <= 1 THEN 1 ELSE 0)
         + (IF CountSpecials(s) * 100 > 20 * Len(s) THEN 1 ELSE 0)
         + (IF LongVowellessToken(re_split_ws(s)) THEN 1 ELSE 0)
         + (IF CountChar(s, "\\") >= 3 THEN 1 ELSE 0)
         + (IF CountIn(s, Letters) * 100 < 35 * Len(s) THEN 1 ELSE 0)

\* cleanup_gibberish.gibberish_score
cleanup_gibberish_score(text) ==
    IF text = None THEN 3
    ELSE LET s == strip(text) IN
         IF s = <<>> THEN 3
         ELSE LET vowels   == CountIn(s, Vowels)
                  letters  == CountIn(s, Letters)
                  specials == CountSpecials(s)
                  total    == Len(s)
                  tokens   == re_split_ws(s)
              IN  (IF total >= 12 /\ vowels <= 1 THEN 1 ELSE 0)
                + (IF specials * 100 > 20 * total THEN 1 ELSE 0)
                + (IF LongVowellessToken(tokens) THEN 1 ELSE 0)
                + (IF CountChar(s, "\\") >= 3 THEN 1 ELSE 0)
                + (IF letters * 100 < 35 * total THEN 1 ELSE 0)

cleanup_looks_gibberish(text) == cleanup_gibberish_score(text) >= 2

\* a quarantine scorer without the rule for one-character tokens
quarantine_score_without_f(text) ==
    IF text = None THEN 3
    ELSE LET s == strip(text) IN
         IF s = <<>> THEN 3
         ELSE (IF Len(s) >= 12 /\ CountIn(s, Vowels) <= 1 THEN 1 ELSE 0)
            + (IF CountSpecials(s) * 100 > 22 * Len(s) THEN 1 ELSE 0)
            + (IF LongVowellessToken(re_split_ws(s)) THEN 1 ELSE 0)
            + (IF CountChar(s, "\\") >= 3 THEN 1 ELSE 0)
            + (IF CountIn(s, Letters) * 100 < 35 * Len(s) THEN 1 ELSE 0)

\* quarantine_gibberish.gibberish_score
quarantine_gibberish_score(text) ==
    IF text = None THEN 3
    ELSE LET s == strip(text) IN
         IF s = <<>> THEN 3
         ELSE LET vowels   == CountIn(s, Vowels)
                  letters  == CountIn(s, Letters)
                  specials == CountSpecials(s)
                  total    == Len(s)
                  tokens   == re_split_ws(s)
                  one_letters ==
                      Cardinality({k \in 1..Len(tokens) : Len(tokens[k]) = 1})
              IN  (IF total >= 12 /\ vowels <= 1 THEN 1 ELSE 0)
                + (IF specials * 100 > 22 * total THEN 1 ELSE 0)
                + (IF LongVowellessToken(tokens) THEN 1 ELSE 0)
                + (IF CountChar(s, "\\") >= 3 THEN 1 ELSE 0)
                + (IF letters * 100 < 35 * total THEN 1 ELSE 0)
                + (IF one_letters * 2 >= Len(tokens) THEN 1 ELSE 0)

quarantine_looks_gibberish(text) == quarantine_gibberish_score(text) >= 2

\* ------------------------------------------------------------------------
\* The catalog database and the two clean-up tools
\* ------------------------------------------------------------------------

VARIABLES
    books,        \* books table joined with authors/publishers: id -> row
    copies,       \* copies table: set of rows
    catalog_csv,  \* output/lukas_bibliothek_v1.csv: set of <<book id, copy id>>
    csv_files,    \* output/quarantine/quarantine_<stamp>.csv: stamp -> rows
    quar_images,  \* output/quarantine/images: set of <<book id, copy id>>
    now,          \* wall clock, in minutes
    pc,           \* position of the tool that is running, "idle" if none
    call,         \* arguments of the running invocation
    selected      \* to_delete (cleanup) / candidates (quarantine) of the run

dbvars == << books, copies, catalog_csv, csv_files, quar_images, now, pc, call,
             selected >>

\* the state of the entity matcher (enhance_candidates_with_matching.main)
VARIABLES
    cat,        \* rows of output/lukas_bibliothek_v1.csv
    segs,       \* rows of output/fotos_segments.csv
    refined,    \* rows of output/fotos_segments_refined.csv
    base,       \* rows of output/fotos_new_candidates.csv
    m_pc,       \* position of main: "start", "loop", "written", "returned"
    cand_rows,  \* the rows collected for fotos_candidates_matched.csv
    new_rows,   \* the rows collected for new_books_from_fotos.csv
    cand_out,   \* output/fotos_candidates_matched.csv as written
    new_out     \* output/new_books_from_fotos.csv as written

mvars == << cat, segs, refined, base, m_pc, cand_rows, new_rows, cand_out,
            new_out >>

\* one call of a function of the pipeline that keeps no state
VARIABLES
    f_pc,   \* "off", "call" before the function runs, "return" after
    fn,     \* the name of the function
    arg,    \* its arguments
    ret     \* its return value, <<>> before it returns

fvars == << f_pc, fn, arg, ret >>

\* one photo on its way through the three programs of the pipeline
VARIABLES
    p_pc,       \* the program to run next: "off", "scan", "refine", "match", "done"
    photo,      \* the photo, its crops as the programs find them, the options
    run_count,  \* the number of runs of the pipeline that are complete
    first_run   \* the files as the first run left them, <<>> before

pvars == << p_pc, photo, run_count, first_run >>

vars == << dbvars, mvars, fvars, pvars >>

\* what the clean-up tools and the matcher leave alone
beside_db == << mvars, fvars, pvars >>

beside_matcher == << dbvars, fvars, pvars >>

beside_call == << dbvars, mvars, pvars >>

beside_pipeline == << dbvars, fvars >>

\* no pipeline run is under way
PipelineOff == p_pc = "off" /\ photo = <<>> /\ run_count = 0 /\ first_run = <<>>

\* no function call is under way
FunctionOff == f_pc = "off" /\ fn = "none" /\ arg = <<>> /\ ret = <<>>

\* bound of the model: the number of rows of the books table
MaxBooks == 1

\* datetime.now().year
current_year == 2026

MinPlausibleYear == 1450

GeminiImport == <<"G","e","m","i","n","i","-","I","m","p","o","r","t">>
FotoErfasst == <<"F","o","t","o"," ","e","r","f","a","s","s","t">>
OnlineVerifiziert ==
    <<"O","n","l","i","n","e"," ","v","e","r","i","f","i","z","i","e","r","t">>
OnlineVerifiziertMixed ==
    <<"o","n","l","i","n","e"," ","V","e","r","i","f","i","z","i","e","r","t">>
GeminiLowercase == <<"g","e","m","i","n","i","-","i","m","p","o","r","t">>
VerifiziertOnline ==
    <<"v","e","r","i","f","i","z","i","e","r","t"," ","o","n","l","i","n","e">>

TitleClean == <<"D","e","r"," ","S","t","e","p","p","e","n","w","o","l","f">>
TitleGib == <<"#","@","%","&","x","$">>
TitleLongToken == <<"x","k","c","d","q","r","t","p","l","m","n","b","v","z">>
AuthorClean == <<"H","e","s","s","e">>
AuthorGib == <<"@","#","%">>
AuthorBlank == <<" ">>
\* a title whose share of special characters, 3 of 14, lies between 0.20 and 0.22
TitleBetweenThresholds == <<"a","b","\\","c","d","\\","e","f","\\","g","h","i","j","k">>
PublisherSome == <<"d","t","v">>
Isbn10Some == <<"3","4","2","3","1","3","5","7","0","0">>
Isbn13Some == <<"9","7","8","3","4","2","3","1","3","5","7","0","2">>

\* cover_local of a copy: no path, a path whose file exists, a path whose
\* file is gone (resolve_image_path returns None for the first and the last)
Covers == {"none", "file", "missing"}

Copy(status, cover) == [status_digitalisierung |-> status, cover_local |-> cover]

\* the record every sample varies: nothing structured, unreadable title
Junk == [title |-> TitleGib, author |-> <<>>, publisher |-> <<>>,
         isbn_10 |-> <<>>, isbn_13 |-> <<>>, publication_year |-> {},
         cps |-> <<>>]

Solid == [title |-> TitleClean, author |-> AuthorClean,
          publisher |-> PublisherSome, isbn_10 |-> <<>>,
          isbn_13 |-> Isbn13Some, publication_year |-> {1927},
          cps |-> << Copy(FotoErfasst, "file") >>]

\* the catalog rows the initial database is drawn from
BookSamples ==
    { Junk,
      [Junk EXCEPT !.cps = << Copy(FotoErfasst, "file") >>],
      [Junk EXCEPT !.cps = << Copy(GeminiImport, "file") >>],
      [Junk EXCEPT !.cps = << Copy(OnlineVerifiziert, "none") >>],
      [Junk EXCEPT !.cps = << Copy(OnlineVerifiziertMixed, "none") >>],
      [Junk EXCEPT !.cps = << Copy(GeminiLowercase, "missing") >>],
      [Junk EXCEPT !.cps = << Copy(VerifiziertOnline, "none") >>],
      [Junk EXCEPT !.cps = << Copy(FotoErfasst, "file"),
                              Copy(GeminiImport, "none") >>],
      [Junk EXCEPT !.cps = << Copy(None, "none") >>, !.publisher = PublisherSome],
      [Junk EXCEPT !.isbn_10 = Isbn10Some,
                   !.cps = << Copy(FotoErfasst, "file") >>],
      [Junk EXCEPT !.isbn_13 = Isbn13Some],
      [Junk EXCEPT !.publication_year = {MinPlausibleYear}],
      [Junk EXCEPT !.publication_year = {current_year + 1}],
      [Junk EXCEPT !.publication_year = {MinPlausibleYear - 1}],
      [Junk EXCEPT !.publication_year = {current_year + 2}],
      [Junk EXCEPT !.title = TitleClean,
                   !.cps = << Copy(FotoErfasst, "missing") >>],
      [Junk EXCEPT !.title = TitleLongToken, !.author = AuthorClean],
      [Junk EXCEPT !.author = AuthorGib],
      [Junk EXCEPT !.title = TitleBetweenThresholds],
      [Junk EXCEPT !.author = AuthorBlank],
      [Junk EXCEPT !.publisher = PublisherSome, !.publication_year = {1927},
                   !.cps = << Copy(FotoErfasst, "file") >>],
      Solid,
      [Solid EXCEPT !.title = TitleGib],
      [Solid EXCEPT !.title = TitleGib,
                    !.cps = << Copy(GeminiImport, "file") >>] }

BookIds == 1..MaxBooks

\* AUTOINCREMENT ids of the copies of book b
CopyId(b, k) == 10 * b + k

BookRow(s) == [title |-> s.title, author |-> s.author,
               publisher |-> s.publisher, isbn_10 |-> s.isbn_10,
               isbn_13 |-> s.isbn_13, publication_year |-> s.publication_year]

CopyRows(b, s) ==
    { [id |-> CopyId(b, k), book_id |-> b,
       status_digitalisierung |-> s.cps[k].status_digitalisierung,
       cover_local |-> s.cps[k].cover_local] : k \in 1..Len(s.cps) }

\* COALESCE(x, '')
Coalesce(x) == IF x = None THEN <<>> ELSE x

\* x LIKE '%online%verifiz%' for a lower-cased x
LikeOnlineVerifiz(x) ==
    LET i == FindFrom(x, <<"o","n","l","i","n","e">>, 1)
    IN  i > 0 /\ FindFrom(x, <<"v","e","r","i","f","i","z">>, i + 6) > 0

\* the three EXISTS sub-selects of the two tools' SELECT
has_gemini(b) ==
    \E cp \in copies : cp.book_id = b /\ cp.status_digitalisierung = GeminiImport

\* variant: the status is matched without LOWER()
has_online_verified_case_sensitive(b) ==
    \E cp \in copies :
        cp.book_id = b /\ LikeOnlineVerifiz(Coalesce(cp.status_digitalisierung))

has_online_verified(b) ==
    \E cp \in copies :
        cp.book_id = b
        /\ LikeOnlineVerifiz(lower(Coalesce(cp.status_digitalisierung)))

has_foto_erfasst(b) ==
    \E cp \in copies : cp.book_id = b /\ cp.status_digitalisierung = FotoErfasst

has_isbn(b) == books[b].isbn_10 # <<>> \/ books[b].isbn_13 # <<>>

has_publisher(b) == books[b].publisher # <<>>

\* variant: the lower limit of the plausible years is exclusive
has_plausible_year_exclusive(b) ==
    /\ books[b].publication_year # {}
    /\ \E y \in books[b].publication_year :
           MinPlausibleYear < y /\ y <= current_year + 1

has_plausible_year(b) ==
    /\ books[b].publication_year # {}
    /\ \E y \in books[b].publication_year :
           MinPlausibleYear <= y /\ y <= current_year + 1

\* ---- invocations ---------------------------------------------------------

\* via = "cli": the __main__ block parsed the flags; via = "call": the
\* function was called with its default arguments
NoCall == [tool |-> "none", via |-> "none", apply |-> FALSE, dry_run |-> FALSE,
           include_foto_erfasst_all |-> FALSE, aggressive_titles |-> FALSE,
           ignore_isbn |-> FALSE, stamp |-> 0]

CleanupCalls ==
    { [NoCall EXCEPT !.tool = "cleanup", !.via = "cli",
                     !.apply = a, !.dry_run = d] : a, d \in BOOLEAN }
    \cup { [NoCall EXCEPT !.tool = "cleanup", !.via = "call"] }

QuarantineCalls ==
    { [NoCall EXCEPT !.tool = "quarantine", !.via = "cli",
                     !.apply = f[1], !.dry_run = f[2],
                     !.include_foto_erfasst_all = f[3],
                     !.aggressive_titles = f[4],
                     !.ignore_isbn = f[5]] : f \in [1..5 -> BOOLEAN] }
    \cup { [NoCall EXCEPT !.tool = "quarantine", !.via = "call"] }

\* default of cleanup's parameter apply
CleanupDefaultApply == TRUE

\* default of quarantine's parameter apply
QuarantineDefaultApply == FALSE

\* apply_flag = True if args.apply and not args.dry_run else False
CliApplyFlag(c) == c.apply /\ ~c.dry_run

\* the value of the parameter apply inside cleanup()
cleanup_apply(c) ==
    IF c.via = "cli" THEN CliApplyFlag(c) ELSE CleanupDefaultApply

\* the value of the parameter apply inside quarantine()
quarantine_apply(c) ==
    IF c.via = "cli" THEN CliApplyFlag(c) ELSE QuarantineDefaultApply

\* ---- the selection rules --------------------------------------------------

\* body of cleanup's loop over the rows: TRUE iff the row is appended to
\* to_delete
cleanup_selects(b) ==
    IF has_gemini(b) \/ has_online_verified(b) THEN FALSE
    ELSE LET title_is_gib  == cleanup_looks_gibberish(books[b].title)
             author_is_gib == strip(books[b].author) = <<>>
                              \/ cleanup_looks_gibberish(books[b].author)
         IN  /\ ~has_isbn(b)
             /\ ~has_publisher(b)
             /\ ~has_plausible_year(b)
             /\ title_is_gib
             /\ author_is_gib

\* variant: the loop body without rule_foto_ocr
quarantine_selects_without_foto_ocr(b, c) ==
    IF has_gemini(b) \/ has_online_verified(b) THEN FALSE
    ELSE LET title_is_gib  == quarantine_looks_gibberish(books[b].title)
             author_is_gib == strip(books[b].author) = <<>>
                              \/ quarantine_looks_gibberish(books[b].author)
             rule_foto_all == c.include_foto_erfasst_all /\ has_foto_erfasst(b)
             rule_aggr_titles ==
                 /\ c.aggressive_titles
                 /\ (title_is_gib \/ author_is_gib)
                 /\ (c.ignore_isbn \/ ~has_isbn(b))
             rule_conservative ==
                 /\ ~has_isbn(b)
                 /\ ~has_publisher(b)
                 /\ ~has_plausible_year(b)
                 /\ title_is_gib
                 /\ author_is_gib
         IN  rule_foto_all \/ rule_aggr_titles \/ rule_conservative

\* body of quarantine's loop over the rows: TRUE iff the row is appended to
\* candidates
quarantine_selects(b, c) ==
    IF has_gemini(b) \/ has_online_verified(b) THEN FALSE
    ELSE LET title_is_gib  == quarantine_looks_gibberish(books[b].title)
             author_is_gib == strip(books[b].author) = <<>>
                              \/ quarantine_looks_gibberish(books[b].author)
             rule_foto_all == c.include_foto_erfasst_all /\ has_foto_erfasst(b)
             rule_aggr_titles ==
                 /\ c.aggressive_titles
                 /\ (title_is_gib \/ author_is_gib)
                 /\ (c.ignore_isbn \/ ~has_isbn(b))
             rule_conservative ==
                 /\ ~has_isbn(b)
                 /\ ~has_publisher(b)
                 /\ ~has_plausible_year(b)
                 /\ title_is_gib
                 /\ author_is_gib
             rule_foto_ocr ==
                 /\ ~c.include_foto_erfasst_all
                 /\ has_foto_erfasst(b)
                 /\ (title_is_gib \/ author_is_gib)
                 /\ ~has_isbn(b)
         IN  rule_foto_all \/ rule_aggr_titles \/ rule_conservative
             \/ rule_foto_ocr

\* ---- SQL ------------------------------------------------------------------

\* DELETE FROM books WHERE id IN (ids)
DeleteBooks(ids) == [b \in (DOMAIN books) \ ids |-> books[b]]

\* the copies table after the DELETE: the tools open their connection with
\* sqlite3.connect and never issue PRAGMA foreign_keys = ON, so SQLite does
\* not enforce ON DELETE CASCADE on it
CopiesAfterDelete(ids) == copies

\* export_to_csv.py: books LEFT JOIN copies, copy id 0 for a book without copy
ExportRows ==
    { <<cp.book_id, cp.id>> : cp \in {x \in copies : x.book_id \in DOMAIN books} }
    \cup { <<b, 0>> : b \in {x \in DOMAIN books :
                                ~\E cp \in copies : cp.book_id = x} }

\* resolve_image_path: the path of the image, '' when there is none
ResolveImage(cover) == IF cover = "file" THEN "file" ELSE "none"

AuditRow(b, copy_id, status, cover) ==
    [book_id |-> b, author |-> books[b].author, title |-> books[b].title,
     publisher |-> books[b].publisher, isbn10 |-> books[b].isbn_10,
     isbn13 |-> books[b].isbn_13, year |-> books[b].publication_year,
     copy_id |-> copy_id, status |-> status,
     cover_local_src |-> ResolveImage(cover)]

\* variant: books JOIN copies, which drops a candidate without copies
AuditRowsInnerJoin(ids) ==
    { AuditRow(cp.book_id, cp.id, Coalesce(cp.status_digitalisierung),
               cp.cover_local) : cp \in {x \in copies : x.book_id \in ids} }

\* the rows of the second SELECT of quarantine (books LEFT JOIN copies, for
\* the candidate ids), as written to the audit CSV
AuditRows(ids) ==
    { AuditRow(cp.book_id, cp.id, Coalesce(cp.status_digitalisierung),
               cp.cover_local) : cp \in {x \in copies : x.book_id \in ids} }
    \cup { AuditRow(b, 0, <<>>, "none") :
             b \in {x \in ids : ~\E cp \in copies : cp.book_id = x} }

\* the images quarantine copies for the rows it writes
AuditImages(ids) ==
    { <<r.book_id, r.copy_id>> :
        r \in {x \in AuditRows(ids) : x.cover_local_src = "file"} }

\* ---- cleanup_gibberish.cleanup --------------------------------------------

\* connect, SELECT, the loop over the rows, the report (lines 77-134)
CleanupBegin(c) ==
    /\ pc = "idle"
    /\ pc' = "cleanup_selected"
    /\ UNCHANGED beside_db
    /\ call' = [c EXCEPT !.stamp = now]
    /\ selected' = {b \in DOMAIN books : cleanup_selects(b)}
    /\ UNCHANGED << books, copies, catalog_csv, csv_files, quar_images, now >>

\* if apply and to_delete: DELETE ... commit; else the dry-run message
\* (lines 136-146)
CleanupApply ==
    /\ pc = "cleanup_selected"
    /\ pc' = "cleanup_export"
    /\ UNCHANGED beside_db
    /\ IF cleanup_apply(call) /\ selected # {}
       THEN /\ books' = DeleteBooks(selected)
            /\ copies' = CopiesAfterDelete(selected)
       ELSE UNCHANGED << books, copies >>
    /\ UNCHANGED << catalog_csv, csv_files, quar_images, now, call, selected >>

\* conn.close(); os.system('python export_to_csv.py') (lines 148-150)
CleanupExport ==
    /\ pc = "cleanup_export"
    /\ pc' = "idle"
    /\ UNCHANGED beside_db
    /\ catalog_csv' = ExportRows
    /\ call' = NoCall
    /\ selected' = {}
    /\ UNCHANGED << books, copies, csv_files, quar_images, now >>

\* ---- quarantine_gibberish.quarantine --------------------------------------

\* makedirs, connect, SELECT, and the whole "with open(csv_path, 'w')" block:
\* header, the loop over the rows, the audit rows and the image copies
\* (lines 95-199).  Opening with 'w' truncates a file of the same stamp.
QuarantineBegin(c) ==
    /\ pc = "idle"
    /\ pc' = "quarantine_audited"
    /\ UNCHANGED beside_db
    /\ call' = [c EXCEPT !.stamp = now]
    /\ LET candidates == {b \in DOMAIN books : quarantine_selects(b, c)} IN
         /\ selected' = candidates
         /\ csv_files' = [t \in (DOMAIN csv_files) \cup {now} |->
                            IF t = now THEN AuditRows(candidates)
                            ELSE csv_files[t]]
         /\ quar_images' = quar_images \cup AuditImages(candidates)
    /\ UNCHANGED << books, copies, catalog_csv, now >>

\* if apply and candidates: DELETE ... commit; else the dry-run message
\* (lines 207-218)
QuarantineApply ==
    /\ pc = "quarantine_audited"
    /\ pc' = "quarantine_export"
    /\ UNCHANGED beside_db
    /\ IF quarantine_apply(call) /\ selected # {}
       THEN /\ books' = DeleteBooks(selected)
            /\ copies' = CopiesAfterDelete(selected)
       ELSE UNCHANGED << books, copies >>
    /\ UNCHANGED << catalog_csv, csv_files, quar_images, now, call, selected >>

\* conn.close(); os.system('python export_to_csv.py') (lines 220-224)
QuarantineExport ==
    /\ pc = "quarantine_export"
    /\ pc' = "idle"
    /\ UNCHANGED beside_db
    /\ catalog_csv' = ExportRows
    /\ call' = NoCall
    /\ selected' = {}
    /\ UNCHANGED << books, copies, csv_files, quar_images, now >>

\* the matcher is not running
MatcherOff ==
    /\ cat = <<>> /\ segs = <<>> /\ refined = <<>> /\ base = <<>>
    /\ m_pc = "off"
    /\ cand_rows = <<>> /\ new_rows = <<>>
    /\ cand_out = [written |-> FALSE, rows |-> <<>>]
    /\ new_out = [written |-> FALSE, rows |-> <<>>]

InitDB ==
    /\ \E pick \in [BookIds -> BookSamples] :
          /\ books = [b \in BookIds |-> BookRow(pick[b])]
          /\ copies = UNION { CopyRows(b, pick[b]) : b \in BookIds }
    /\ catalog_csv = ExportRows
    /\ csv_files = << >>
    /\ quar_images = {}
    /\ now = 0
    /\ pc = "idle"
    /\ call = NoCall
    /\ selected = {}
    /\ MatcherOff
    /\ FunctionOff
    /\ PipelineOff

NextDB ==
    \/ \E c \in CleanupCalls : CleanupBegin(c)
    \/ CleanupApply
    \/ CleanupExport
    \/ \E c \in QuarantineCalls : QuarantineBegin(c)
    \/ QuarantineApply
    \/ QuarantineExport

SpecDB == InitDB /\ [][NextDB]_vars

\* bound of the model: the minutes the wall clock can advance
MaxMinute == 1

\* a minute passes: datetime.now() of a later run gives a later stamp
Tick ==
    /\ now < MaxMinute
    /\ now' = now + 1
    /\ UNCHANGED << books, copies, catalog_csv, csv_files, quar_images, pc,
                    call, selected >>
    /\ UNCHANGED beside_db

\* the clean-up tools under a clock that advances
NextAudit ==
    \/ NextDB
    \/ Tick

SpecAudit == InitDB /\ [][NextAudit]_vars

\* ------------------------------------------------------------------------
\* Entity matcher: normalisation, ISBN recognition, scoring
\* ------------------------------------------------------------------------

\* norm: (s or '').strip()
norm(s) == strip(Coalesce(s))

RECURSIVE CollapseWs(_)
CollapseWs(s) ==
    IF Len(s) <= 1 THEN s
    ELSE IF s[1] \in Whitespace /\ s[2] \in Whitespace
         THEN CollapseWs(Tail(s))
         ELSE << s[1] >> \o CollapseWs(Tail(s))

\* clean: lower-case, everything outside [a-z0-9äöüß\s] becomes a blank,
\* runs of whitespace become one blank, strip
clean(s) ==
    LET l == lower(Coalesce(s))
        kept == [i \in 1..Len(l) |->
                    IF l[i] \in (Lower \cup Digits \cup Whitespace)
                    THEN l[i] ELSE " "]
    IN  strip(CollapseWs(kept))

NonEmpty(t) == t # <<>>

\* tokens: [t for t in clean(s).split(' ') if t]
tokens(s) == SelectSeq(SplitWs(clean(s), <<>>), NonEmpty)

SeqToSet(q) == {q[k] : k \in 1..Len(q)}

\* set(tokens(s))
TokenSet(s) == SeqToSet(tokens(s))

DigitVal(c) ==
    CASE c = "0" -> 0 [] c = "1" -> 1 [] c = "2" -> 2 [] c = "3" -> 3
      [] c = "4" -> 4 [] c = "5" -> 5 [] c = "6" -> 6 [] c = "7" -> 7
      [] c = "8" -> 8 [] c = "9" -> 9

IsDigit(c) == c \in Digits

IsIsbnChar(c) == c \in Digits \cup {"X", "x"}

\* re.sub(r"[^0-9Xx]", "", s)
FlatIsbn(s) == SelectSeq(s, IsIsbnChar)

RECURSIVE SumSeq(_)
SumSeq(q) == IF q = <<>> THEN 0 ELSE Head(q) + SumSeq(Tail(q))

is_isbn10(raw) ==
    LET s == FlatIsbn(raw) IN
    IF Len(s) # 10 THEN FALSE
    ELSE IF \E i \in 1..9 : ~IsDigit(s[i]) THEN FALSE
    ELSE LET total == SumSeq([i \in 1..9 |-> i * DigitVal(s[i])])
             c == s[10]
         IN  IF c \in {"x", "X"} THEN (total + 10 * 10) % 11 = 0
             ELSE (total + 10 * DigitVal(c)) % 11 = 0

\* an ISBN-13 check with the weights 3, 1 in place of 1, 3
is_isbn13_weights_swapped(raw) ==
    LET s == SelectSeq(raw, IsDigit) IN
    IF Len(s) # 13 THEN FALSE
    ELSE LET sm == SumSeq([i \in 1..12 |->
                      DigitVal(s[i]) * (IF i % 2 = 1 THEN 3 ELSE 1)])
             chk == (10 - (sm % 10)) % 10
         IN  chk = DigitVal(s[13])

is_isbn13(raw) ==
    LET s == SelectSeq(raw, IsDigit) IN
    IF Len(s) # 13 THEN FALSE
    ELSE LET sm == SumSeq([i \in 1..12 |->
                      DigitVal(s[i]) * (IF i % 2 = 1 THEN 1 ELSE 3)])
             chk == (10 - (sm % 10)) % 10
         IN  chk = DigitVal(s[13])

IsbnSep == {"-", " "}

\* \w
IsWordChar(c) == c \in Letters \cup Digits \cup {"_"}

\* (?:\d[- ]?){n}\d from position p: the position after the match, 0 if none.
\* A separator can only be followed by a digit, so the greedy optional
\* separator never needs backtracking.
RECURSIVE DigitsWithSeps(_, _, _)
DigitsWithSeps(s, p, n) ==
    IF p > Len(s) \/ ~IsDigit(s[p]) THEN 0
    ELSE IF n = 0 THEN p + 1
    ELSE IF p + 1 <= Len(s) /\ s[p + 1] \in IsbnSep
         THEN DigitsWithSeps(s, p + 2, n - 1)
         ELSE DigitsWithSeps(s, p + 1, n - 1)

\* 97[89][- ]?(?:\d[- ]?){9}\d at position i
MatchIsbn13At(s, i) ==
    IF i + 2 > Len(s) THEN 0
    ELSE IF ~(s[i] = "9" /\ s[i + 1] = "7" /\ s[i + 2] \in {"8", "9"}) THEN 0
    ELSE IF i + 3 <= Len(s) /\ s[i + 3] \in IsbnSep
         THEN DigitsWithSeps(s, i + 4, 9)
         ELSE DigitsWithSeps(s, i + 3, 9)

\* \b\d{9}[\dXx]\b at position i
MatchIsbn10At(s, i) ==
    IF i + 9 > Len(s) THEN 0
    ELSE IF i > 1 /\ IsWordChar(s[i - 1]) THEN 0
    ELSE IF \E k \in 0..8 : ~IsDigit(s[i + k]) THEN 0
    ELSE IF ~IsIsbnChar(s[i + 9]) THEN 0
    ELSE IF i + 10 <= Len(s) /\ IsWordChar(s[i + 10]) THEN 0
    ELSE i + 10

FirstNonZero(x, y) == IF x > 0 THEN x ELSE y

\* the alternation: the 13-digit form is tried first
MatchIsbnAt(s, i) == FirstNonZero(MatchIsbn13At(s, i), MatchIsbn10At(s, i))

RECURSIVE FindAllIsbn(_, _)

FindAllFrom(s, i, e) ==
    IF e > 0 THEN << SubSeq(s, i, e - 1) >> \o FindAllIsbn(s, e)
    ELSE FindAllIsbn(s, i + 1)

\* re.findall: the non-overlapping matches, leftmost first
FindAllIsbn(s, i) ==
    IF i > Len(s) THEN <<>> ELSE FindAllFrom(s, i, MatchIsbnAt(s, i))

IsValidFlat(flat) == is_isbn13(flat) \/ is_isbn10(flat)

IsValidIsbn(raw) == IsValidFlat(FlatIsbn(raw))

FirstFlat(valid) == IF valid = <<>> THEN None ELSE FlatIsbn(Head(valid))

\* find_isbn: the first checksum-valid candidate, flattened; None if none
find_isbn(text) == FirstFlat(SelectSeq(FindAllIsbn(text, 1), IsValidIsbn))

\* ---- difflib.SequenceMatcher(None, a, b).ratio() ---------------------------

Min(x, y) == IF x <= y THEN x ELSE y

\* length of the common run of a from i and b from j, inside a[..ahi], b[..bhi]
RunLen(a, b, i, j, ahi, bhi) ==
    LET room == Min(ahi - i + 1, bhi - j + 1)
        runs == {k \in 0..room : \A t \in 0..(k - 1) : a[i + t] = b[j + t]}
    IN  CHOOSE k \in runs : \A m \in runs : m <= k

\* of the starts with their block sizes: the longest block; of those the one
\* starting earliest in a, then earliest in b
LongestOf(starts, size) ==
    CHOOSE p \in starts :
        \A q \in starts :
           \/ size[p] > size[q]
           \/ /\ size[p] = size[q]
              /\ \/ p[1] < q[1]
                 \/ p[1] = q[1] /\ p[2] <= q[2]

Block(p, size) == [i |-> p[1], j |-> p[2], size |-> size[p]]

LongestBlock(starts, size, alo, blo) ==
    IF starts = {} THEN [i |-> alo, j |-> blo, size |-> 0]
    ELSE Block(LongestOf(starts, size), size)

MatchStarts(a, b, alo, ahi, blo, bhi) ==
    {p \in (alo..ahi) \X (blo..bhi) : a[p[1]] = b[p[2]]}

BlockSizes(a, b, starts, ahi, bhi) ==
    [p \in starts |-> RunLen(a, b, p[1], p[2], ahi, bhi)]

FindIn(a, b, starts, alo, ahi, blo, bhi) ==
    LongestBlock(starts, BlockSizes(a, b, starts, ahi, bhi), alo, blo)

\* find_longest_match on a[alo..ahi], b[blo..bhi]; size 0 if there is none
find_longest_match(a, b, alo, ahi, blo, bhi) ==
    FindIn(a, b, MatchStarts(a, b, alo, ahi, blo, bhi), alo, ahi, blo, bhi)

RECURSIVE MatchedChars(_, _, _, _, _, _)

AroundBlock(a, b, alo, ahi, blo, bhi, m) ==
    IF m.size = 0 THEN 0
    ELSE m.size
         + MatchedChars(a, b, alo, m.i - 1, blo, m.j - 1)
         + MatchedChars(a, b, m.i + m.size, ahi, m.j + m.size, bhi)

\* get_matching_blocks: the total size of the blocks found by splitting
\* around the longest match, left and right
MatchedChars(a, b, alo, ahi, blo, bhi) ==
    IF alo > ahi \/ blo > bhi THEN 0
    ELSE AroundBlock(a, b, alo, ahi, blo, bhi,
                     find_longest_match(a, b, alo, ahi, blo, bhi))

\* ---- scores ------------------------------------------------------------------
\* A score is the fraction n / d with d a positive multiple of 100; the code's
\* floats are the same numbers up to rounding in the last place.

Zero == [n |-> 0, d |-> 100]

Gt(x, y) == x.n * y.d > y.n * x.d

\* x >= h / 100
GeHundredths(x, h) == x.n * 100 >= h * x.d

\* x + h / 100
PlusHundredths(x, h) == [n |-> x.n + h * (x.d \div 100), d |-> x.d]

\* max(x, y): y if y > x, else x
MaxScore(x, y) == IF Gt(y, x) THEN y ELSE x

\* f"{x:.3f}": the score in thousandths, rounded
Thousandths(x) == (2000 * x.n + x.d) \div (2 * x.d)

\* float(r.get('match_score') or '0'), 0.0 on ValueError: the field is {} when
\* it is empty or no number, {t} for a number of t thousandths
ParseScore(field) ==
    IF field = {} THEN Zero
    ELSE [n |-> CHOOSE t \in field : TRUE, d |-> 1000]

\* 0.6 * (2 * matches / length) + 0.4 * (inter / union)
Blend(matches, length, inter, union) ==
    [n |-> 120 * matches * union + 40 * inter * length,
     d |-> 100 * length * union]

\* jaccard of two non-empty token sets, blended with the ratio
BlendSets(matches, length, sa, sb) ==
    Blend(matches, length, Cardinality(sa \cap sb), Cardinality(sa \cup sb))

TitleScore(a, b) ==
    IF a = <<>> \/ b = <<>> THEN Zero
    ELSE BlendSets(MatchedChars(a, b, 1, Len(a), 1, Len(b)), Len(a) + Len(b),
                   TokenSet(a), TokenSet(b))

\* score_title: 0.6 * SequenceMatcher ratio + 0.4 * jaccard of the token sets
score_title(o_txt, title) == TitleScore(clean(o_txt), clean(title))

\* has_any_token
has_any_token(text, token_set) == TokenSet(text) \cap token_set # {}

\* ------------------------------------------------------------------------
\* Entity matcher: main
\* ------------------------------------------------------------------------

\* bound of the model: the number of baseline candidate rows
MaxSegs == 1

\* a catalog export: three books
CatalogSample ==
    << [id |-> <<"7">>, title |-> <<"D","i","e"," ","B","l","e","c","h","t","r","o","m","m","e","l">>,
       author |-> <<"G","r","a","s","s">>, publisher |-> <<"d","t","v">>,
       isbn |-> <<"9","7","8","3","4","2","3","1","3","5","7","0","2">>],
       [id |-> <<"8">>, title |-> <<"H","e","s","s","e"," ","G","e","d","i","c","h","t","e">>,
       author |-> <<"H","e","s","s","e">>, publisher |-> <<"I","n","s","e","l">>,
       isbn |-> <<"0","8","0","4","4","2","9","5","7","X">>],
       [id |-> <<"9">>, title |-> <<"F","a","u","s","t">>,
       author |-> <<"G","o","e","t","h","e">>, publisher |-> <<>>,
       isbn |-> <<>>] >>

CatalogSamples == { <<>>, CatalogSample }

\* hint and OCR text of a segment
SegmentSamples ==
    { [ocr_title_hint |-> <<>>,
       ocr_text |-> <<>>],
      [ocr_title_hint |-> <<>>,
       ocr_text |-> <<"D","i","e"," ","D","i","e"," ","B","l","e","c","h","t","r","o","m","m","e","l">>],
      [ocr_title_hint |-> <<"D","i","e"," ","B","l","e","c","h","t","r","o","m","m","e","l">>,
       ocr_text |-> <<"R","o","m","a","n">>],
      [ocr_title_hint |-> <<"G","r","a","s","s">>,
       ocr_text |-> <<"D","i","e"," ","B","l","e","c","h","t","r","o","m","m","e","l">>],
      [ocr_title_hint |-> <<>>,
       ocr_text |-> <<"H","e","s","s","e"," ","G","e","d","i","c","h","t","e">>],
      [ocr_title_hint |-> <<>>,
       ocr_text |-> <<"D","i","e"," ","B","l","e","c","h","t","r","o","m","m","e","l"," ","d","t","v">>],
      [ocr_title_hint |-> <<>>,
       ocr_text |-> <<"B","l","e","c","h","t","r","o","m","m","e","l"," ","D","i","e">>],
      [ocr_title_hint |-> <<"I","S","B","N">>,
       ocr_text |-> <<"9","7","8","3","4","2","3","1","3","5","7","0","2">>],
      [ocr_title_hint |-> <<>>,
       ocr_text |-> <<"9","7","8","-","3","-","4","2","3","-","1","3","5","7","0","-","2"," ","x","x">>],
      [ocr_title_hint |-> <<"F","a","u","s","t">>,
       ocr_text |-> <<"0","8","0","4","4","2","9","5","7","X">>],
      [ocr_title_hint |-> <<"F","a","u","s","t">>,
       ocr_text |-> <<"0","-","8","0","4","4","-","2","9","5","7","-","X">>],
      [ocr_title_hint |-> <<"F","a","u","s","t">>,
       ocr_text |-> <<"0","8","0","4","4","2","9","5","7","x">>],
      [ocr_title_hint |-> <<>>,
       ocr_text |-> <<"I","S","B","N","0","8","0","4","4","2","9","5","7","X">>],
      [ocr_title_hint |-> <<>>,
       ocr_text |-> <<"9","7","8","-","3","-","1","6","-","1","4","8","4","1","0","-","0"," ","F","a","u","s","t">>],
      [ocr_title_hint |-> <<>>,
       ocr_text |-> <<"9","7","8","3","1","6","1","4","8","4","1","0","0"," ","9","7","8","3","4","2","3","1","3","5","7","0","2">>],
      [ocr_title_hint |-> <<>>,
       ocr_text |-> <<"F","a","u","s","t"," ","1","2","3","4","5","6","7","8","9","0">>],
      [ocr_title_hint |-> <<>>,
       ocr_text |-> <<"F","a","u","s","t">>],
      [ocr_title_hint |-> <<"F","a","u","s","t">>,
       ocr_text |-> <<"G","o","e","t","h","e">>],
      [ocr_title_hint |-> <<"H","e","s","s","e">>,
       ocr_text |-> <<"D","i","e"," ","B","l","e","c","h","t","r","o","m","m","e","l">>] }

\* matched_book_id and match_score (thousandths; {} for an empty or
\* unparsable field) of a baseline candidate row
BaselineSamples ==
    { [matched_book_id |-> <<>>, match_score |-> {}],
      [matched_book_id |-> <<"7">>, match_score |-> {500}],
      [matched_book_id |-> <<"7">>, match_score |-> {840}],
      [matched_book_id |-> <<"9">>, match_score |-> {839}],
      [matched_book_id |-> <<" ","8">>, match_score |-> {}],
      [matched_book_id |-> <<"9","9">>, match_score |-> {900}] }

SourcePhoto == <<"f","1">>

NoGuess == [title_guess |-> <<>>, author_guess |-> <<>>,
            publisher_guess |-> <<>>]

GuessSamples ==
    { NoGuess,
      [title_guess |-> <<"F","a","u","s","t">>,
       author_guess |-> <<"g","o","e","t","h","e">>,
       publisher_guess |-> <<>>] }

\* ---- build_catalog_indexes and the dictionaries of main ---------------------

\* a dict built by a loop over rows: the last row with the key wins; ks are
\* the indexes of the rows with the key, 0 stands for an absent key
LastOf(ks) == IF ks = {} THEN 0 ELSE CHOOSE k \in ks : \A j \in ks : j <= k

HasIsbnKey(r, key) == norm(r.isbn) # <<>> /\ FlatIsbn(norm(r.isbn)) = key

\* by_isbn: key re.sub(r"[^0-9Xx]", "", isbn) for every row with an isbn;
\* the index of the row stored under key, 0 if the key is absent
by_isbn(rows, key) == LastOf({k \in 1..Len(rows) : HasIsbnKey(rows[k], key)})

\* by_id: the index of the row stored under id, 0 if the id is absent
by_id(rows, id) == LastOf({k \in 1..Len(rows) : rows[k].id = id})

author_tokens(rows) ==
    UNION { TokenSet(norm(rows[k].author)) : k \in 1..Len(rows) }

publisher_tokens(rows) ==
    UNION { TokenSet(norm(rows[k].publisher)) : k \in 1..Len(rows) }

OcrTextOf(k) == IF k = 0 THEN <<>> ELSE segs[k].ocr_text

HasKey(r, src, segi) == r.source_path = src /\ r.segment_index = segi

\* a lookup keyed by the photo alone
SegTextOfPhoto(src, segi) ==
    OcrTextOf(LastOf({k \in 1..Len(segs) : segs[k].source_path = src}))

\* seg_index.get((src, segi), {}).get('ocr_text', '')
SegText(src, segi) ==
    OcrTextOf(LastOf({k \in 1..Len(segs) : HasKey(segs[k], src, segi)}))

GuessOf(k) ==
    IF k = 0 THEN NoGuess
    ELSE [title_guess |-> refined[k].title_guess,
          author_guess |-> refined[k].author_guess,
          publisher_guess |-> refined[k].publisher_guess]

\* ref_index.get((src, segi), {}) with its three guesses, '' when missing
RefGuess(src, segi) ==
    GuessOf(LastOf({k \in 1..Len(refined) : HasKey(refined[k], src, segi)}))

\* ' '.join([hint, otext]).strip()
JoinText(hint, otext) == strip(hint \o << " " >> \o otext)

\* ---- the body of the loop over the baseline candidates ----------------------

MatchedFields(k) ==
    [m_title |-> cat[k].title, m_author |-> cat[k].author,
     m_pub |-> cat[k].publisher]

NoFields == [m_title |-> <<>>, m_author |-> <<>>, m_pub |-> <<>>]

\* s += 0.05 for an author hit, s += 0.03 for a publisher hit
WithBonuses(s, author_hit, pub_hit) ==
    PlusHundredths(s, (IF author_hit THEN 5 ELSE 0)
                      + (IF pub_hit THEN 3 ELSE 0))

\* has_x and bk.get(field) and has_any_token(text, set(tokens(field)))
FieldHit(has_x, text, field) ==
    has_x /\ field # <<>> /\ has_any_token(text, TokenSet(field))

\* the score of catalog row bk in the similarity scan, bonuses included
EntryScore(bk, text, has_author, has_pub) ==
    WithBonuses(score_title(text, bk.title),
                FieldHit(has_author, text, bk.author),
                FieldHit(has_pub, text, bk.publisher))

\* if s > best_score: best_score = s; best = bk
Better(acc, k, s) ==
    IF Gt(s, acc.best_score) THEN [best |-> k, best_score |-> s] ELSE acc

\* for bk in cat: the first row with the highest score above 0.0
RECURSIVE ScanCatalog(_, _, _, _, _)
ScanCatalog(k, text, has_author, has_pub, acc) ==
    IF k > Len(cat) THEN acc
    ELSE ScanCatalog(k + 1, text, has_author, has_pub,
                     Better(acc, k,
                            EntryScore(cat[k], text, has_author, has_pub)))

\* rule 0: the ISBN found in the text is a key of by_isbn; the index of its
\* catalog row, 0 if no ISBN is found or it is no key
IsbnKey(isbn) == IF isbn = None THEN 0 ELSE by_isbn(cat, isbn)

IsbnRule(text) == IsbnKey(find_isbn(text))

IsbnDecision(k) ==
    [m_id |-> cat[k].id, f |-> MatchedFields(k),
     final_score |-> [n |-> 100, d |-> 100],
     status |-> "existing", reason |-> "isbn"]

\* rule 1 without the test "base_id in by_id": an unknown id is carried too
BaselineDecisionUnchecked(k, base_id, base_score) ==
    IF k = 0
    THEN [m_id |-> base_id, f |-> NoFields, final_score |-> base_score,
          status |-> "new",
          reason |-> IF base_id = <<>> THEN "" ELSE "baseline-suggestion"]
    ELSE IF GeHundredths(base_score, 84)
    THEN [m_id |-> base_id, f |-> MatchedFields(k),
          final_score |-> base_score, status |-> "existing",
          reason |-> "baseline>=0.84"]
    ELSE [m_id |-> base_id, f |-> MatchedFields(k),
          final_score |-> base_score, status |-> "new",
          reason |-> "baseline-suggestion"]

\* rule 1 and the suggestion: k is the catalog row of base_id, 0 if
\* base_id is empty or unknown
BaselineDecision(k, base_id, base_score) ==
    IF k = 0
    THEN [m_id |-> <<>>, f |-> NoFields, final_score |-> base_score,
          status |-> "new", reason |-> ""]
    ELSE IF GeHundredths(base_score, 84)
    THEN [m_id |-> base_id, f |-> MatchedFields(k),
          final_score |-> base_score, status |-> "existing",
          reason |-> "baseline>=0.84"]
    ELSE [m_id |-> base_id, f |-> MatchedFields(k),
          final_score |-> base_score, status |-> "new",
          reason |-> "baseline-suggestion"]

\* base_id and base_id in by_id
BaselineKey(base_id) == IF base_id = <<>> THEN 0 ELSE by_id(cat, base_id)

\* rule 2 accepted without the assignment status = 'existing'
BestDecisionKeepsStatus(sugg, scan, by_author) ==
    [m_id |-> cat[scan.best].id, f |-> MatchedFields(scan.best),
     final_score |-> MaxScore(sugg.final_score, scan.best_score),
     status |-> sugg.status,
     reason |-> IF by_author THEN "author+title" ELSE "title-only>=0.88"]

\* rule 2 accepted: the best catalog row replaces the suggestion
BestDecision(sugg, scan, by_author) ==
    [m_id |-> cat[scan.best].id, f |-> MatchedFields(scan.best),
     final_score |-> MaxScore(sugg.final_score, scan.best_score),
     status |-> "existing",
     reason |-> IF by_author THEN "author+title" ELSE "title-only>=0.88"]

\* best is not None and ((has_author and best_score >= 0.75)
\*                       or best_score >= 0.88)
AcceptBest(sugg, scan, by_author) ==
    IF scan.best # 0 /\ (by_author \/ GeHundredths(scan.best_score, 88))
    THEN BestDecision(sugg, scan, by_author)
    ELSE sugg

\* the acceptance test without its author branch
ScanDecisionAuthorIgnored(sugg, scan, has_author) ==
    AcceptBest(sugg, scan, FALSE)

ScanDecision(sugg, scan, has_author) ==
    AcceptBest(sugg, scan, has_author /\ GeHundredths(scan.best_score, 75))

ScanWith(sugg, text, has_author, has_pub) ==
    ScanDecision(sugg,
                 ScanCatalog(1, text, has_author, has_pub,
                             [best |-> 0, best_score |-> Zero]),
                 has_author)

\* variant: rule 2 runs whatever rule 1 has decided
AfterBaselineAlwaysScans(sugg, text) ==
    ScanWith(sugg, text, has_any_token(text, author_tokens(cat)),
             has_any_token(text, publisher_tokens(cat)))

\* rule 2 runs unless rule 1 has accepted the baseline
AfterBaseline(sugg, text) ==
    IF sugg.status = "existing" THEN sugg
    ELSE ScanWith(sugg, text, has_any_token(text, author_tokens(cat)),
                  has_any_token(text, publisher_tokens(cat)))

\* rules 1..2 for a text without catalogued ISBN
SimilarityRules(text, base_id, base_score) ==
    AfterBaseline(BaselineDecision(BaselineKey(base_id), base_id, base_score),
                  text)

DecideWith(k, text, base_id, base_score) ==
    IF k > 0 THEN IsbnDecision(k)
    ELSE SimilarityRules(text, base_id, base_score)

DecideText(text, base_id, base_score) ==
    DecideWith(IsbnRule(text), text, base_id, base_score)

\* the text of the baseline candidate row r
RowText(r) ==
    JoinText(r.ocr_title_hint, SegText(r.source_path, r.segment_index))

\* the decision for one baseline candidate row r
Decide(r) ==
    DecideText(RowText(r), strip(r.matched_book_id),
               ParseScore(r.match_score))

OutRow(r, otext, d, g) ==
    [source_path |-> r.source_path, crop_path |-> r.crop_path,
     segment_index |-> r.segment_index,
     ocr_title_hint |-> r.ocr_title_hint, ocr_text |-> otext,
     matched_book_id |-> d.m_id, matched_title |-> d.f.m_title,
     matched_author |-> d.f.m_author, matched_publisher |-> d.f.m_pub,
     match_score |-> Thousandths(d.final_score),
     status |-> d.status, reason |-> d.reason,
     guess_title |-> g.title_guess, guess_author |-> g.author_guess,
     guess_publisher |-> g.publisher_guess]

\* the row appended to cand_rows
CandRow(r) ==
    OutRow(r, SegText(r.source_path, r.segment_index), Decide(r),
           RefGuess(r.source_path, r.segment_index))

GuessRow(r, g) ==
    [title |-> IF g.title_guess # <<>> THEN g.title_guess
               ELSE r.ocr_title_hint,
     author |-> g.author_guess, publisher |-> g.publisher_guess,
     cover_local |-> r.crop_path, source_photo |-> r.source_path,
     segment_index |-> r.segment_index]

\* the row appended to new_rows when the status is 'new'
NewRow(r) == GuessRow(r, RefGuess(r.source_path, r.segment_index))

\* cand_rows.append(...); if status == 'new': new_rows.append(...)
AppendRows(r, row) ==
    /\ cand_rows' = Append(cand_rows, row)
    /\ new_rows' = IF row.status = "new"
                   THEN Append(new_rows, NewRow(r)) ELSE new_rows

\* ---- main ---------------------------------------------------------------------

\* read the four CSV files; return 2 when segments, candidates or catalog
\* are missing or empty; else build the indexes (lines 165-191)
MatchStart ==
    /\ m_pc = "start"
    /\ m_pc' = IF segs = <<>> \/ base = <<>> \/ cat = <<>>
               THEN "returned" ELSE "loop"
    /\ UNCHANGED << cat, segs, refined, base, cand_rows, new_rows, cand_out,
                    new_out >>
    /\ UNCHANGED beside_matcher

\* one iteration of "for r in base" (lines 193-286)
MatchRow ==
    /\ m_pc = "loop"
    /\ Len(cand_rows) < Len(base)
    /\ AppendRows(base[Len(cand_rows) + 1], CandRow(base[Len(cand_rows) + 1]))
    /\ UNCHANGED << cat, segs, refined, base, m_pc, cand_out, new_out >>
    /\ UNCHANGED beside_matcher

\* write_csv of both outputs after the loop (lines 288-291)
MatchWrite ==
    /\ m_pc = "loop"
    /\ Len(cand_rows) = Len(base)
    /\ m_pc' = "written"
    /\ cand_out' = [written |-> TRUE, rows |-> cand_rows]
    /\ new_out' = [written |-> TRUE, rows |-> new_rows]
    /\ UNCHANGED << cat, segs, refined, base, cand_rows, new_rows >>
    /\ UNCHANGED beside_matcher

\* no clean-up tool is running, the database is empty
DatabaseOff ==
    /\ books = << >> /\ copies = {} /\ catalog_csv = {}
    /\ csv_files = << >> /\ quar_images = {} /\ now = 0
    /\ pc = "off" /\ call = NoCall /\ selected = {}

BaseRow(k, seg, bl) ==
    [source_path |-> SourcePhoto, crop_path |-> << "c" >>, segment_index |-> k,
     ocr_title_hint |-> seg.ocr_title_hint,
     matched_book_id |-> bl.matched_book_id, match_score |-> bl.match_score]

SegRow(k, seg) ==
    [source_path |-> SourcePhoto, segment_index |-> k,
     ocr_text |-> seg.ocr_text]

RefinedRow(k, g) ==
    [source_path |-> SourcePhoto, segment_index |-> k,
     title_guess |-> g.title_guess, author_guess |-> g.author_guess,
     publisher_guess |-> g.publisher_guess]

\* the samples of the rows after the first: text and baseline candidate
LaterRowSamples ==
    { [seg |-> [ocr_title_hint |-> <<>>, ocr_text |-> <<"H","e","s","s","e"," ","G","e","d","i","c","h","t","e">>],
       bl |-> [matched_book_id |-> <<>>, match_score |-> {}]],
      [seg |-> [ocr_title_hint |-> <<>>, ocr_text |-> <<>>],
       bl |-> [matched_book_id |-> <<"7">>, match_score |-> {500}]],
      [seg |-> [ocr_title_hint |-> <<>>,
                ocr_text |-> <<"9","7","8","-","3","-","4","2","3","-","1","3","5","7","0","-","2"," ","x","x">>],
       bl |-> [matched_book_id |-> <<"9">>, match_score |-> {839}]],
      [seg |-> [ocr_title_hint |-> <<>>, ocr_text |-> <<"B","l","e","c","h","t","r","o","m","m","e","l"," ","D","i","e">>],
       bl |-> [matched_book_id |-> <<"9","9">>, match_score |-> {900}]] }

\* the index of a segment of the same photo that has no candidate row
ForeignIndex == 0

\* the segment rows and the refined rows that come with the rows of the
\* candidates: nothing more, a refined row for segment 1, or that and the
\* rows of a foreign segment behind
InputLayouts ==
    { [refined |-> <<>>, extra |-> <<>>] }
    \cup { [refined |-> << RefinedRow(1, g) >>, extra |-> <<>>] :
              g \in GuessSamples }
    \cup { [refined |->
               << RefinedRow(1, [title_guess |-> <<"R","o","m","a","n">>,
                                 author_guess |-> <<>>,
                                 publisher_guess |-> <<>>]),
                  RefinedRow(ForeignIndex,
                             [title_guess |-> <<"G","e","d","i","c","h","t","e">>,
                              author_guess |-> <<"H","e","s","s","e">>,
                              publisher_guess |-> <<>>]) >>,
            extra |->
               << SegRow(ForeignIndex,
                         [ocr_text |-> <<"H","e","s","s","e"," ","G","e","d","i","c","h","t","e">>]) >>] }

InitMatch ==
    /\ cat \in CatalogSamples
    /\ \E n \in 0..MaxSegs :
       \E seg \in [1..n -> SegmentSamples] :
       \E bl \in [1..n -> BaselineSamples] :
       \E lay \in InputLayouts :
          /\ \A k \in 2..n : [seg |-> seg[k], bl |-> bl[k]] \in LaterRowSamples
          /\ base = [k \in 1..n |-> BaseRow(k, seg[k], bl[k])]
          /\ segs = [k \in 1..n |-> SegRow(k, seg[k])] \o lay.extra
          /\ refined = lay.refined
    /\ m_pc = "start"
    /\ cand_rows = <<>> /\ new_rows = <<>>
    /\ cand_out = [written |-> FALSE, rows |-> <<>>]
    /\ new_out = [written |-> FALSE, rows |-> <<>>]
    /\ DatabaseOff
    /\ FunctionOff
    /\ PipelineOff

NextMatch ==
    \/ MatchStart
    \/ MatchRow
    \/ MatchWrite

SpecMatch == InitMatch /\ [][NextMatch]_vars

\* ------------------------------------------------------------------------
\* Spine segmenter (scan_fotos_multi_book.vertical_segments)
\* ------------------------------------------------------------------------
\* An image is the sequence of its columns, a column the sequence of its gray
\* values; W is the number of columns.

Max(x, y) == IF x >= y THEN x ELSE y

\* x0 = margin, x1 = W - margin; if x1 <= x0: x0, x1 = 0, W
Window(W, margin) ==
    IF W - margin <= margin THEN << 0, W >> ELSE << margin, W - margin >>

\* the bound x of the slice arr[:, x0:x1] of W columns, counted from 0
SliceBound(x, W) == IF x < 0 THEN Max(W + x, 0) ELSE Min(x, W)

\* (column < threshold).sum()
DarkCount(col, threshold) ==
    Cardinality({r \in 1..Len(col) : col[r] < threshold})

\* dark = (arr[:, x0:x1] < threshold).sum(axis=0)
DarkProjection(img, lo, hi, threshold) ==
    [i \in 1..(hi - lo) |-> DarkCount(img[lo + i], threshold)]

CountAtMost(d, v) == Cardinality({i \in DOMAIN d : d[i] <= v})

\* sorted(d)[k], k counted from 0
KthSmallest(d, k) ==
    CHOOSE v \in {d[i] : i \in DOMAIN d} :
        CountAtMost(d, v) > k /\ CountAtMost(d, v - 1) <= k

\* five times the value interpolated r fifths of the way from lo to hi
Lerp5(lo, hi, r) == 5 * lo + r * (hi - lo)

\* 5 * np.percentile(d, 20): linear interpolation at index 0.2 * (n - 1)
Percentile20Times5(d) ==
    Lerp5(KthSmallest(d, (Len(d) - 1) \div 5),
          KthSmallest(d, Min((Len(d) - 1) \div 5 + 1, Len(d) - 1)),
          (Len(d) - 1) % 5)

\* a gap test that leaves out the columns at the percentile itself
GapsStrict(d, thr5) == [i \in DOMAIN d |-> 5 * d[i] < thr5]

\* gaps = (dark <= thr)
Gaps(d, thr5) == [i \in DOMAIN d |-> 5 * d[i] <= thr5]

\* a run [sx, ex) ends: it is kept if it is wide enough
CloseRun(in_run, sx, ex, min_seg_width, segments) ==
    IF in_run /\ ex - sx >= min_seg_width
    THEN Append(segments, << sx, ex >>) ELSE segments

\* for i, is_gap in enumerate(gaps), from index i on, and the run open at
\* the end
RECURSIVE ScanRuns(_, _, _, _, _, _, _)
ScanRuns(gaps, i, in_run, run_start, x0, min_seg_width, segments) ==
    IF i = Len(gaps)
    THEN CloseRun(in_run, x0 + run_start, x0 + Len(gaps), min_seg_width,
                  segments)
    ELSE IF gaps[i + 1]
    THEN ScanRuns(gaps, i + 1, FALSE, run_start, x0, min_seg_width,
                  CloseRun(in_run, x0 + run_start, x0 + i, min_seg_width,
                           segments))
    ELSE ScanRuns(gaps, i + 1, TRUE, IF in_run THEN run_start ELSE i, x0,
                  min_seg_width, segments)

\* the segments as found, without the fallback
AsFound(segments, W) == segments

\* if not segments: segments = [(0, W)]
OrWhole(segments, W) ==
    IF segments = <<>> THEN << << 0, W >> >> ELSE segments

\* variant: the fallback segment ends where the usable range ends
SegmentsOfUsableEnd(d, x0, min_seg_width, W) ==
    OrWhole(ScanRuns(Gaps(d, Percentile20Times5(d)), 0, FALSE, 0, x0,
                     min_seg_width, <<>>), x0 + Len(d))

SegmentsOf(d, x0, min_seg_width, W) ==
    OrWhole(ScanRuns(Gaps(d, Percentile20Times5(d)), 0, FALSE, 0, x0,
                     min_seg_width, <<>>), W)

SegmentsIn(img, win, min_seg_width, threshold) ==
    SegmentsOf(DarkProjection(img, SliceBound(win[1], Len(img)),
                              SliceBound(win[2], Len(img)), threshold),
               win[1], min_seg_width, Len(img))

vertical_segments(img, min_seg_width, threshold, margin) ==
    SegmentsIn(img, Window(Len(img), margin), min_seg_width, threshold)

\* bounds of the model: rows of an image, columns of the images that take
\* every pattern, widths of the bands and of the gap of the band images
ImageHeight == 2

MaxWidth == 4

MaxBand == 5

MaxGap == 3

\* gray values of a dark and of a light pixel
DarkGray == 40

LightGray == 200

DarkColumn == [r \in 1..ImageHeight |-> DarkGray]

LightColumn == [r \in 1..ImageHeight |-> LightGray]

MixedColumn == [r \in 1..ImageHeight |-> IF r = 1 THEN DarkGray ELSE LightGray]

\* two dark bands of a and b columns around a light gap of g columns
Bands(a, g, b) ==
    [i \in 1..(a + g + b) |->
        IF i <= a \/ i > a + g THEN DarkColumn ELSE LightColumn]

ImageSamples ==
    UNION { [1..w -> {DarkColumn, LightColumn, MixedColumn}] : w \in 1..MaxWidth }
    \cup { Bands(a, g, b) : a \in 1..MaxBand, g \in 1..MaxGap, b \in 1..MaxBand }

\* --min-seg-width, --threshold, --margin
SegmentArgs ==
    [img : ImageSamples, min_seg_width : {1, 2, 3},
     threshold : {DarkGray, 180, LightGray + 1},
     margin : {-2, -1, 0, 1, 6}]

InitSegment ==
    /\ f_pc = "call" /\ fn = "vertical_segments"
    /\ arg \in SegmentArgs
    /\ ret = <<>>
    /\ DatabaseOff /\ MatcherOff
    /\ PipelineOff

CallVerticalSegments ==
    /\ f_pc = "call" /\ fn = "vertical_segments"
    /\ ret' = vertical_segments(arg.img, arg.min_seg_width, arg.threshold,
                                arg.margin)
    /\ f_pc' = "return"
    /\ UNCHANGED << fn, arg >>
    /\ UNCHANGED beside_call

NextSegment == CallVerticalSegments

SpecSegment == InitSegment /\ [][NextSegment]_vars

\* ------------------------------------------------------------------------
\* The two gibberish scorers as functions of a text
\* ------------------------------------------------------------------------

\* bound of the model: the number of words of a text
MaxWords == 3

WordSamples ==
    { <<"D","e","r">>,
      <<"S","t","e","p","p","e","n","w","o","l","f">>,
      <<"x">>,
      <<"\\","\\","\\">>,
      <<"q","w","r","t","z","p","s","d","f","g","h","j","k","l">>,
      <<"#","@","%">>,
      <<"1","2">> }

RECURSIVE JoinWords(_)
JoinWords(ws) ==
    IF Len(ws) = 1 THEN ws[1]
    ELSE ws[1] \o << " " >> \o JoinWords(Tail(ws))

\* None, blank texts and the texts of one to MaxWords words
GibberishTexts ==
    { None, <<>>, << " " >>, << " ", " " >> }
    \cup { JoinWords(ws) : ws \in UNION { [1..n -> WordSamples] : n \in 1..MaxWords } }

InitGibberish ==
    /\ f_pc = "call" /\ fn = "gibberish_score"
    /\ arg \in GibberishTexts
    /\ ret = <<>>
    /\ DatabaseOff /\ MatcherOff
    /\ PipelineOff

\* gibberish_score and looks_gibberish of both modules on the same text
CallGibberishScore ==
    /\ f_pc = "call" /\ fn = "gibberish_score"
    /\ ret' = [cleanup_score |-> cleanup_gibberish_score(arg),
               cleanup_gibberish |-> cleanup_looks_gibberish(arg),
               quarantine_score |-> quarantine_gibberish_score(arg),
               quarantine_gibberish |-> quarantine_looks_gibberish(arg)]
    /\ f_pc' = "return"
    /\ UNCHANGED << fn, arg >>
    /\ UNCHANGED beside_call

NextGibberish == CallGibberishScore

SpecGibberish == InitGibberish /\ [][NextGibberish]_vars

\* ------------------------------------------------------------------------
\* The ISBN checks as functions of a string
\* ------------------------------------------------------------------------

\* bound of the model: the number of characters changed in a sample string
MaxEdits == 1

IsbnBases ==
    { <<"0","8","0","4","4","2","9","5","7","X">>,
      <<"1","2","3","4","5","6","7","8","9","0">>,
      <<"3","1","6","1","4","8","4","1","0","X">>,
      <<"9","7","8","3","1","6","1","4","8","4","1","0","0">>,
      <<"9","7","8","-","3","-","1","6","-","1","4","8","4","1","0","-","0">> }

ReplaceChars == {"0", "5", "X", "x", "a"}
InsertChars == {"-"}

\* the strings that differ from a string of S by one character replaced or
\* one character inserted
OneEdit(S) ==
    UNION { { [s EXCEPT ![i] = c] : i \in 1..Len(s), c \in ReplaceChars }
            \cup { SubSeq(s, 1, i) \o << c >> \o SubSeq(s, i + 1, Len(s)) :
                     i \in 0..Len(s), c \in InsertChars } : s \in S }

RECURSIVE Edited(_)
Edited(n) ==
    IF n = 0 THEN IsbnBases
    ELSE LET P == Edited(n - 1) IN P \cup OneEdit(P)

IsbnTexts == Edited(MaxEdits)

InitIsbn ==
    /\ f_pc = "call" /\ fn = "is_isbn"
    /\ arg \in IsbnTexts
    /\ ret = <<>>
    /\ DatabaseOff /\ MatcherOff
    /\ PipelineOff

\* is_isbn10 and is_isbn13 on the same string
CallIsIsbn ==
    /\ f_pc = "call" /\ fn = "is_isbn"
    /\ ret' = [isbn10 |-> is_isbn10(arg), isbn13 |-> is_isbn13(arg)]
    /\ f_pc' = "return"
    /\ UNCHANGED << fn, arg >>
    /\ UNCHANGED beside_call

NextIsbn == CallIsIsbn

SpecIsbn == InitIsbn /\ [][NextIsbn]_vars

\* ------------------------------------------------------------------------
\* OCR optimizer (ocr_refine_spines.best_ocr_text)
\* ------------------------------------------------------------------------

\* \s of the OCR texts
OcrSpace == {" ", "\n", "\t", "\r"}

\* re.sub(r"\t+", " ", s)
RECURSIVE TabsToBlank(_)
TabsToBlank(s) ==
    IF s = <<>> THEN s
    ELSE IF s[1] # "\t" THEN << s[1] >> \o TabsToBlank(Tail(s))
    ELSE IF Len(s) >= 2 /\ s[2] = "\t" THEN TabsToBlank(Tail(s))
    ELSE << " " >> \o TabsToBlank(Tail(s))

\* re.sub(r"\n{2,}", "\n", s)
RECURSIVE NewlinesToOne(_)
NewlinesToOne(s) ==
    IF s = <<>> THEN s
    ELSE IF s[1] = "\n" /\ Len(s) >= 2 /\ s[2] = "\n"
         THEN NewlinesToOne(Tail(s))
         ELSE << s[1] >> \o NewlinesToOne(Tail(s))

RECURSIVE OcrStrip(_)
OcrStrip(s) ==
    IF s = <<>> THEN s
    ELSE IF s[1] \in OcrSpace THEN OcrStrip(Tail(s))
    ELSE IF s[Len(s)] \in OcrSpace THEN OcrStrip(SubSeq(s, 1, Len(s) - 1))
    ELSE s

\* clean of ocr_refine_spines
refine_clean(s) ==
    OcrStrip(NewlinesToOne(TabsToBlank(
        [i \in 1..Len(s) |-> IF s[i] = "\r" THEN "\n" ELSE s[i]])))

\* VOWELS, restricted to the ASCII letters of the modelled texts
OcrVowels == {"a", "e", "i", "o", "u"}

NotOcrSpace(c) == c \notin OcrSpace

RECURSIVE Gcd(_, _)
Gcd(x, y) == IF y = 0 THEN x ELSE Gcd(y, x % y)

\* the fraction n / d in lowest terms
Fraction(n, d) == [n |-> n \div Gcd(n, d), d |-> d \div Gcd(n, d)]

\* 0.55 * alpha / len + 0.25 * vowels / max(1, alpha)
\*   + 0.20 * min(len / 80, 1), as a fraction
QualityOf(len, alpha, vowels) ==
    Fraction(220 * alpha * Max(1, alpha)
             + 100 * vowels * len
             + Min(len, 80) * len * Max(1, alpha),
             400 * len * Max(1, alpha))

text_quality_score(text) ==
    LET t == SelectSeq(text, NotOcrSpace) IN
    IF t = <<>> THEN Zero
    ELSE QualityOf(Len(t), CountIn(t, Letters), CountIn(lower(t), OcrVowels))

PSMS == << 5, 6, 7, 11 >>
ROTS == << 0, 90, 270, 180 >>

\* the number of images preprocess_variants returns
NumVariants == 6

\* the number of configurations tried for one page segmentation mode
NumCfgs == 2

NumCombos == Len(ROTS) * NumVariants * Len(PSMS) * NumCfgs

\* variant: the loop over the modes encloses the loop over the variants
CombinationIndexModeOuter(r, v, p, c) ==
    (((r - 1) * Len(PSMS) + (p - 1)) * NumVariants + (v - 1)) * NumCfgs + c

\* the place of a combination in the order the loops reach them: rotation r,
\* variant v, mode p, configuration c
CombinationIndex(r, v, p, c) ==
    (((r - 1) * NumVariants + (v - 1)) * Len(PSMS) + (p - 1)) * NumCfgs + c

\* pytesseract.image_to_string raised an exception
OcrError == << "Exception" >>

\* what the backend returns for the k-th combination
OutcomeAt(outcomes, k) ==
    IF k \in DOMAIN outcomes.at THEN outcomes.at[k] ELSE outcomes.rest

NoBest == [txt |-> <<>>, score |-> Zero, rot |-> 0, psm |-> 6,
           raised |-> FALSE]

\* a loop body in which the exception of the backend is not caught
AttemptUncaught(best, o, rot, psm) ==
    IF o = OcrError THEN [best EXCEPT !.raised = TRUE]
    ELSE IF Gt(text_quality_score(refine_clean(o)), best.score)
         THEN [txt |-> refine_clean(o),
               score |-> text_quality_score(refine_clean(o)),
               rot |-> rot, psm |-> psm, raised |-> FALSE]
         ELSE best

\* the body of the innermost loop: try, except: continue, clean, score, keep
\* the better
Attempt(best, o, rot, psm) ==
    IF o = OcrError THEN best
    ELSE IF Gt(text_quality_score(refine_clean(o)), best.score)
         THEN [txt |-> refine_clean(o),
               score |-> text_quality_score(refine_clean(o)),
               rot |-> rot, psm |-> psm, raised |-> FALSE]
         ELSE best

\* for cfg in cfgs, from the c-th on; an exception ends the loops
RECURSIVE CfgLoop(_, _, _, _, _, _)
CfgLoop(outcomes, r, v, p, c, best) ==
    IF c > NumCfgs \/ best.raised THEN best
    ELSE CfgLoop(outcomes, r, v, p, c + 1,
                 Attempt(best, OutcomeAt(outcomes, CombinationIndex(r, v, p, c)),
                         ROTS[r], PSMS[p]))

\* for psm in PSMS, from the p-th on
RECURSIVE PsmLoop(_, _, _, _, _)
PsmLoop(outcomes, r, v, p, best) ==
    IF p > Len(PSMS) \/ best.raised THEN best
    ELSE PsmLoop(outcomes, r, v, p + 1, CfgLoop(outcomes, r, v, p, 1, best))

\* for pv in preprocess_variants(rimg), from the v-th on
RECURSIVE VariantLoop(_, _, _, _)
VariantLoop(outcomes, r, v, best) ==
    IF v > NumVariants \/ best.raised THEN best
    ELSE VariantLoop(outcomes, r, v + 1, PsmLoop(outcomes, r, v, 1, best))

\* for rot in ROTS, from the r-th on
RECURSIVE RotLoop(_, _, _)
RotLoop(outcomes, r, best) ==
    IF r > Len(ROTS) \/ best.raised THEN best
    ELSE RotLoop(outcomes, r + 1, VariantLoop(outcomes, r, 1, best))

best_ocr_text(outcomes) == RotLoop(outcomes, 1, NoBest)

OutcomeSamples ==
    { OcrError, <<>>, <<"F","a","u","s","t">>, <<"F","A","U","S","T">>, <<"x","q","#","1">>, <<" ","E","i","n"," ","J","a","h","r","\r","\n","\n","B","a","n","d","\t","\t">> }

\* the combinations with an outcome of their own: the first, the first of
\* the second rotation and the last
CombinationSamples == {1, 49, NumCombos}

\* two combinations of the first rotation with outcomes of equal quality:
\* first variant with second mode, second variant with first mode
TieCombinations == {3, 9}

TieOutcomes == { <<"F","a","u","s","t">>, <<"F","A","U","S","T">> }

\* what the backend does for every combination
OcrOutcomes ==
    [at : [CombinationSamples -> OutcomeSamples]
          \cup [TieCombinations -> TieOutcomes],
     rest : {OcrError, <<>>}]

InitOcr ==
    /\ f_pc = "call" /\ fn = "best_ocr_text"
    /\ arg \in OcrOutcomes
    /\ ret = <<>>
    /\ DatabaseOff /\ MatcherOff
    /\ PipelineOff

CallBestOcrText ==
    /\ f_pc = "call" /\ fn = "best_ocr_text"
    /\ ret' = best_ocr_text(arg)
    /\ f_pc' = "return"
    /\ UNCHANGED << fn, arg >>
    /\ UNCHANGED beside_call

NextOcr == CallBestOcrText

SpecOcr == InitOcr /\ [][NextOcr]_vars

\* ------------------------------------------------------------------------
\* The pipeline: scan_fotos_multi_book, ocr_refine_spines and
\* enhance_candidates_with_matching, run one after the other on one photo
\* ------------------------------------------------------------------------

\* bound of the model: the number of runs of the pipeline
MaxRuns == 2

\* ---- ocr_refine_spines: the guessers ------------------------------------------

\* the tokens of a column of the catalog, row after row
RECURSIVE ColumnTokens(_, _)
ColumnTokens(rows, column) ==
    IF rows = <<>> THEN <<>>
    ELSE tokens(Head(rows)[column]) \o ColumnTokens(Tail(rows), column)

\* filter_counts: the tokens of more than one character counted 2 to 500 times
filter_counts(q) ==
    { t \in SeqToSet(q) :
        Len(t) > 1 /\ Cardinality({i \in DOMAIN q : q[i] = t}) \in 2..500 }

\* build_catalog_sets
build_catalog_sets(rows) ==
    [author |-> filter_counts(ColumnTokens(rows, "author")),
     publisher |-> filter_counts(ColumnTokens(rows, "publisher"))]

\* the first tokens of toks that are in token_set, each once, at most limit
RECURSIVE KnownTokens(_, _, _, _)
KnownTokens(toks, token_set, limit, seq) ==
    IF toks = <<>> \/ Len(seq) >= limit THEN seq
    ELSE KnownTokens(Tail(toks), token_set, limit,
                     IF Head(toks) \in token_set /\ Head(toks) \notin SeqToSet(seq)
                     THEN Append(seq, Head(toks)) ELSE seq)

\* ' '.join(seq)
JoinTokens(seq) == IF seq = <<>> THEN <<>> ELSE JoinWords(seq)

\* guess_author, without the confidence
guess_author(text, author_token_set) ==
    JoinTokens(KnownTokens(tokens(text), author_token_set, 4, <<>>))

\* guess_publisher, without the confidence
guess_publisher(text, publisher_token_set) ==
    JoinTokens(KnownTokens(tokens(text), publisher_token_set, 3, <<>>))

STOPLINES == { <<"b","a","n","d">>, <<"r","e","i","h","e">>, <<"b","d">>,
               <<"a","u","f","l","a","g","e">> }

\* text.split('\n')
RECURSIVE SplitLines(_, _)
SplitLines(s, line) ==
    IF s = <<>> THEN << line >>
    ELSE IF Head(s) = "\n" THEN << line >> \o SplitLines(Tail(s), <<>>)
    ELSE SplitLines(Tail(s), Append(line, Head(s)))

\* [ln.strip() for ln in text.split('\n') if ln.strip()]
LinesOf(text) ==
    SelectSeq([i \in 1..Len(SplitLines(text, <<>>)) |->
                  OcrStrip(SplitLines(text, <<>>)[i])], NonEmpty)

\* a line guess_title keeps as a candidate
IsTitleLine(ln, ag, pg) ==
    /\ tokens(ln) # <<>>
    /\ TokenSet(ln) \cap STOPLINES = {}
    /\ TokenSet(ln) \cap ag = {}
    /\ TokenSet(ln) \cap pg = {}
    /\ CountIn(ln, Letters) >= 4

\* candidates.sort(key=len, reverse=True); candidates[0]: the first of the
\* longest lines, '' without a line
FirstLongest(lines) ==
    IF lines = <<>> THEN <<>>
    ELSE lines[CHOOSE i \in DOMAIN lines :
                  /\ \A j \in DOMAIN lines : Len(lines[j]) <= Len(lines[i])
                  /\ \A j \in 1..(i - 1) : Len(lines[j]) < Len(lines[i])]

TitleLines(lines, ag, pg) ==
    SelectSeq(lines, LAMBDA ln : IsTitleLine(ln, ag, pg))

\* guess_title
guess_title(text, author_guess, publisher_guess) ==
    IF TitleLines(LinesOf(text), TokenSet(author_guess),
                  TokenSet(publisher_guess)) # <<>>
    THEN FirstLongest(TitleLines(LinesOf(text), TokenSet(author_guess),
                                 TokenSet(publisher_guess)))
    ELSE FirstLongest(LinesOf(text))

\* ---- the files --------------------------------------------------------------------

\* a write that keeps what the file held
write_csv_appending(old, rows) == old \o rows

\* write_csv: open(path, 'w') replaces what the file held
write_csv(old, rows) == rows

DigitChar(i) == CHOOSE c \in Digits : DigitVal(c) = i

\* seg_path of the idx-th segment
CropPath(idx) == << "s", "e", "g" >> \o << DigitChar(idx) >>

\* ---- scan_fotos_multi_book.process_image -------------------------------------

\* ocr_text(crop) if args.ocr, else "", ""
ScanOcr(idx) ==
    IF photo.ocr THEN photo.crops[idx].scan_ocr
    ELSE [ocr_title_hint |-> <<>>, ocr_text |-> <<>>]

\* the segments of the photo; none when the photo cannot be opened
PhotoSegments ==
    IF photo.openable
    THEN vertical_segments(photo.img, photo.args.min_seg_width,
                           photo.args.threshold, photo.args.margin)
    ELSE <<>>

\* the indices of the segments whose crop could be saved
SavedIndices(found) ==
    SelectSeq([i \in 1..Len(found) |-> i], LAMBDA i : photo.crops[i].saved)

\* seg_rows: one row per saved segment
ScanSegRows(found) ==
    [k \in 1..Len(SavedIndices(found)) |->
        [source_path |-> SourcePhoto,
         segment_index |-> SavedIndices(found)[k],
         x0 |-> found[SavedIndices(found)[k]][1],
         x1 |-> found[SavedIndices(found)[k]][2],
         crop_path |-> CropPath(SavedIndices(found)[k]),
         ocr_title_hint |-> ScanOcr(SavedIndices(found)[k]).ocr_title_hint,
         ocr_text |-> ScanOcr(SavedIndices(found)[k]).ocr_text]]

\* cand_rows without --match: no match, score 0.000, status new
ScanCandRows(rows) ==
    [k \in 1..Len(rows) |->
        [source_path |-> rows[k].source_path, crop_path |-> rows[k].crop_path,
         segment_index |-> rows[k].segment_index,
         ocr_title_hint |-> rows[k].ocr_title_hint,
         matched_book_id |-> <<>>, match_score |-> {0}, status |-> "new"]]

\* new_rows: every candidate of the scan is new
ScanNewRows(rows) ==
    [k \in 1..Len(rows) |->
        [title |-> rows[k].ocr_title_hint, author |-> <<>>,
         cover_local |-> rows[k].crop_path, source_photo |-> rows[k].source_path,
         segment_index |-> rows[k].segment_index]]

\* main of scan_fotos_multi_book on the one photo: process_image, then the
\* three CSV files are written
Scan ==
    /\ p_pc = "scan"
    /\ segs' = write_csv(segs, ScanSegRows(PhotoSegments))
    /\ base' = write_csv(base, ScanCandRows(ScanSegRows(PhotoSegments)))
    /\ new_out' = [written |-> TRUE,
                   rows |-> ScanNewRows(ScanSegRows(PhotoSegments))]
    /\ p_pc' = "refine"
    /\ UNCHANGED << cat, refined, m_pc, cand_rows, new_rows, cand_out >>
    /\ UNCHANGED << photo, run_count, first_run >>
    /\ UNCHANGED beside_pipeline

\* ---- ocr_refine_spines.main ---------------------------------------------------

\* the crop of the row is a file that opens as an image
CropReadable(r) == photo.crops[r.segment_index].at_refine = "ok"

\* the row of a segment: best text, guesses
RefineRow(r, txt, sets) ==
    [source_path |-> r.source_path, crop_path |-> r.crop_path,
     segment_index |-> r.segment_index, ocr_text_refined |-> txt,
     author_guess |-> guess_author(txt, sets.author),
     publisher_guess |-> guess_publisher(txt, sets.publisher),
     title_guess |-> guess_title(txt, guess_author(txt, sets.author),
                                 guess_publisher(txt, sets.publisher))]

\* rows_out: one row per segment whose crop is readable
RefineRows(rows, sets) ==
    [k \in 1..Len(SelectSeq(rows, CropReadable)) |->
        RefineRow(SelectSeq(rows, CropReadable)[k],
                  best_ocr_text(photo.crops[
                      SelectSeq(rows, CropReadable)[k].segment_index].outcomes).txt,
                  sets)]

\* main of ocr_refine_spines: return 2 without segments, else write the
\* refined rows; then the matcher is started
Refine ==
    /\ p_pc = "refine"
    /\ refined' = IF segs = <<>> THEN refined
                  ELSE write_csv(refined,
                                 RefineRows(segs, build_catalog_sets(cat)))
    /\ p_pc' = "match"
    /\ m_pc' = "start" /\ cand_rows' = <<>> /\ new_rows' = <<>>
    /\ UNCHANGED << cat, segs, base, cand_out, new_out >>
    /\ UNCHANGED << photo, run_count, first_run >>
    /\ UNCHANGED beside_pipeline

\* ---- the end of a run ----------------------------------------------------------

\* the files a run leaves
Files == [segs |-> segs, refined |-> refined, base |-> base,
          cand_out |-> cand_out, new_out |-> new_out]

\* the matcher has returned: the run is complete, the next one starts
EndRun ==
    /\ p_pc = "match"
    /\ m_pc \in {"returned", "written"}
    /\ run_count' = run_count + 1
    /\ first_run' = IF run_count = 0 THEN Files ELSE first_run
    /\ p_pc' = IF run_count + 1 < MaxRuns THEN "scan" ELSE "done"
    /\ m_pc' = "off"
    /\ UNCHANGED << cat, segs, refined, base, cand_rows, new_rows, cand_out,
                    new_out >>
    /\ UNCHANGED photo
    /\ UNCHANGED beside_pipeline

\* ---- photos ---------------------------------------------------------------------

\* a catalog in which an author has two books
PipelineCatalog ==
    CatalogSample \o
    << [id |-> <<"1","0">>, title |-> <<"W","e","r","t","h","e","r">>,
        author |-> <<"G","o","e","t","h","e">>, publisher |-> <<>>,
        isbn |-> <<>>] >>

\* one book, and two books with a light gap between them
PhotoImages == { Bands(2, 0, 1), Bands(2, 2, 2) }

\* what ocr_text reads from a crop
ScanOcrSamples ==
    { [ocr_title_hint |-> <<>>, ocr_text |-> <<>>],
      [ocr_title_hint |-> <<"F","a","u","s","t">>,
       ocr_text |-> <<"G","o","e","t","h","e">>],
      [ocr_title_hint |-> <<"I","S","B","N">>,
       ocr_text |-> <<"9","7","8","3","4","2","3","1","3","5","7","0","2">>] }

\* what the backend does with a crop for ocr_refine_spines: it fails always,
\* or it reads a text in the first combination
RefineOutcomeSamples ==
    { [at |-> [k \in CombinationSamples |-> OcrError], rest |-> OcrError],
      [at |-> [k \in CombinationSamples |->
                  IF k = 1 THEN <<"F","a","u","s","t","\n","G","o","e","t","h","e","\t">> ELSE OcrError],
       rest |-> <<>>] }

\* a crop: whether it can be saved, how ocr_refine_spines finds it, what
\* the backend reads
CropSamples ==
    [saved : BOOLEAN, at_refine : {"ok", "missing", "unopenable"},
     scan_ocr : ScanOcrSamples, outcomes : RefineOutcomeSamples]

\* the second crop of a photo
SecondCropSamples ==
    { c \in CropSamples :
        /\ c.scan_ocr.ocr_title_hint = <<"F","a","u","s","t">>
        /\ c.outcomes.rest = <<>>
        /\ c.saved \/ c.at_refine = "ok" }

PhotoSamples ==
    [openable : BOOLEAN, img : PhotoImages, ocr : BOOLEAN,
     args : {[min_seg_width |-> 2, threshold |-> 180, margin |-> 0]},
     crops : { << c1, c2 >> : c1 \in CropSamples, c2 \in SecondCropSamples }]

\* refined rows an earlier run has left
StaleRefined ==
    { <<>>,
      << RefinedRow(1, [title_guess |-> <<"R","o","m","a","n">>,
                        author_guess |-> <<>>, publisher_guess |-> <<>>]) >> }

InitPipeline ==
    /\ photo \in PhotoSamples
    /\ cat \in {<<>>, PipelineCatalog}
    /\ refined \in StaleRefined
    /\ segs = <<>> /\ base = <<>>
    /\ m_pc = "off" /\ cand_rows = <<>> /\ new_rows = <<>>
    /\ cand_out = [written |-> FALSE, rows |-> <<>>]
    /\ new_out = [written |-> FALSE, rows |-> <<>>]
    /\ p_pc = "scan" /\ run_count = 0 /\ first_run = <<>>
    /\ DatabaseOff
    /\ FunctionOff

NextPipeline ==
    \/ Scan
    \/ Refine
    \/ MatchStart
    \/ MatchRow
    \/ MatchWrite
    \/ EndRun

SpecPipeline == InitPipeline /\ [][NextPipeline]_vars

\* ------------------------------------------------------------------------
\* The field guessers as functions of a text and a token set
\* ------------------------------------------------------------------------

\* bound of the model: the number of words of a text
MaxTokens == 5

\* len(inter): the tokens of toks that are in token_set, one by one
CountKnown(toks, token_set) ==
    Cardinality({i \in DOMAIN toks : toks[i] \in token_set})

\* a confidence as a fraction
NoConfidence == [n |-> 0, d |-> 1]

\* conf = min(len(inter)/max(3,len(set(toks))), 1.0)
Confidence(toks, token_set) ==
    [n |-> Min(CountKnown(toks, token_set),
               Max(3, Cardinality(SeqToSet(toks)))),
     d |-> Max(3, Cardinality(SeqToSet(toks)))]

\* if not inter: return '', 0.0; else conf
ConfidenceOrNone(toks, token_set) ==
    IF CountKnown(toks, token_set) = 0 THEN NoConfidence
    ELSE Confidence(toks, token_set)

\* the confidence guess_author returns beside its guess
author_conf(text, author_token_set) ==
    IF tokens(text) = <<>> THEN NoConfidence
    ELSE ConfidenceOrNone(tokens(text), author_token_set)

\* the confidence guess_publisher returns beside its guess
publisher_conf(text, publisher_token_set) ==
    ConfidenceOrNone(tokens(text), publisher_token_set)

\* the words of the texts: they give the tokens a, b, c, d, e
GuessWords == { <<"a">>, <<"B",",">>, <<"c">>, <<"d">>, <<"e">> }

GuessTexts ==
    { <<>> } \cup { JoinWords(ws) :
                      ws \in UNION { [1..n -> GuessWords] : n \in 1..MaxTokens } }

TokenSetSamples ==
    { {}, { <<"a">>, <<"c">> },
      { <<"a">>, <<"b">>, <<"c">>, <<"d">>, <<"e">> } }

InitGuess ==
    /\ f_pc = "call" /\ fn = "guess"
    /\ arg \in [text : GuessTexts, token_set : TokenSetSamples]
    /\ ret = <<>>
    /\ DatabaseOff /\ MatcherOff
    /\ PipelineOff

\* ga, gac = guess_author(...); gp, gpc = guess_publisher(...)
CallGuess ==
    /\ f_pc = "call" /\ fn = "guess"
    /\ ret' = [author_guess |-> guess_author(arg.text, arg.token_set),
               author_conf |-> author_conf(arg.text, arg.token_set),
               publisher_guess |-> guess_publisher(arg.text, arg.token_set),
               publisher_conf |-> publisher_conf(arg.text, arg.token_set)]
    /\ f_pc' = "return"
    /\ UNCHANGED << fn, arg >>
    /\ UNCHANGED beside_call

NextGuess == CallGuess

SpecGuess == InitGuess /\ [][NextGuess]_vars

\* ------------------------------------------------------------------------
\* Properties of the clean-up tools
\* ------------------------------------------------------------------------

Online == <<"o","n","l","i","n","e">>
Verifiz == <<"v","e","r","i","f","i","z">>

\* a status that protects: exactly 'Gemini-Import', or 'online' followed by
\* 'verifiz' in any letter case
ProtectingStatus(st) ==
    \/ st = GeminiImport
    \/ /\ st # None
       /\ \E i, j \in 1..Len(st) :
            /\ i + Len(Online) <= j
            /\ j + Len(Verifiz) - 1 <= Len(st)
            /\ SubSeq(lower(st), i, i + Len(Online) - 1) = Online
            /\ SubSeq(lower(st), j, j + Len(Verifiz) - 1) = Verifiz

Protected(b) ==
    \E cp \in copies :
        cp.book_id = b /\ ProtectingStatus(cp.status_digitalisierung)

Removed == (DOMAIN books) \ (DOMAIN books')

C2_DeleteOnlyWithExplicitApply ==
    [][ Removed # {} =>
          call.via = "cli" /\ call.apply /\ ~call.dry_run ]_dbvars

\* absent, or outside 1450..current year + 1
NoPlausibleYear(year) ==
    \A y \in year : y < 1450 \/ y > current_year + 1

\* the deletion rule as the documentation states it
Deletable(b) ==
    /\ ~Protected(b)
    /\ books[b].isbn_10 = <<>> /\ books[b].isbn_13 = <<>>
    /\ books[b].publisher = <<>>
    /\ NoPlausibleYear(books[b].publication_year)
    /\ cleanup_gibberish_score(books[b].title) >= 2
    /\ (books[b].author = <<>> \/ cleanup_gibberish_score(books[b].author) >= 2)

Audited(b) ==
    /\ call.stamp \in DOMAIN csv_files
    /\ \E r \in csv_files[call.stamp] : r.book_id = b
    /\ \A r \in csv_files[call.stamp] :
          r.book_id = b =>
              /\ r.title = books[b].title /\ r.author = books[b].author
              /\ r.publisher = books[b].publisher
              /\ r.isbn10 = books[b].isbn_10 /\ r.isbn13 = books[b].isbn_13
              /\ r.year = books[b].publication_year
    /\ \A cp \in copies :
          cp.book_id = b =>
              /\ \E r \in csv_files[call.stamp] :
                    /\ r.book_id = b /\ r.copy_id = cp.id
                    /\ r.cover_local_src = "file" <=> cp.cover_local = "file"
              /\ cp.cover_local = "file" => <<b, cp.id>> \in quar_images

Results == 1..Len(cand_rows)

\* the segment text of result k: hint and OCR text
ResultText(k) == RowText(base[k])

NotHyphen(c) == c # "-"

Dehyphen(s) == SelectSeq(s, NotHyphen)

\* sub is isbn, written with or without single hyphens between its characters
HyphenatedForm(sub, isbn) ==
    /\ sub # <<>>
    /\ sub[1] # "-" /\ sub[Len(sub)] # "-"
    /\ \A p \in 1..(Len(sub) - 1) : ~(sub[p] = "-" /\ sub[p + 1] = "-")
    /\ Dehyphen(sub) = isbn

\* text[i..j] is the only ISBN-shaped substring: no digit stands outside it
OnlyIsbnAt(text, i, j) ==
    \A p \in 1..Len(text) : (p < i \/ p > j) => text[p] \notin Digits

\* the ISBN of catalog entry e, without its separators
CatalogIsbn(e) == FlatIsbn(norm(cat[e].isbn))

\* text[i..j] is the ISBN of catalog entry e, hyphenated or not
IsbnOccurs(text, e, i, j) ==
    /\ CatalogIsbn(e) # <<>>
    /\ HyphenatedForm(SubSeq(text, i, j), CatalogIsbn(e))
    /\ OnlyIsbnAt(text, i, j)

\* the result of the ISBN rule for catalog entry e
IsIsbnResult(row, e) ==
    /\ row.status = "existing"
    /\ row.matched_book_id = cat[e].id
    /\ row.match_score = 1000
    /\ row.reason = "isbn"

\* C5: whenever the segment text contains, anywhere and with or
\* without hyphens, the ISBN of a catalog entry as its only ISBN-shaped
\* substring, the result is 'existing' with that entry's id, score 1.0 and
\* reason 'isbn'.
C5_IsbnShortCircuitAnyForm ==
    \A k \in Results : \A e \in 1..Len(cat) :
    \A i \in 1..Len(ResultText(k)) : \A j \in i..Len(ResultText(k)) :
        IsbnOccurs(ResultText(k), e, i, j) => IsIsbnResult(cand_rows[k], e)

ExistingReasons ==
    { "isbn", "baseline>=0.84", "author+title", "title-only>=0.88" }

\* C6: in every emitted result the status is 'existing' if and only if the
\* reason is one of 'isbn', 'baseline>=0.84', 'author+title',
\* 'title-only>=0.88'; the status is 'existing' or 'new'.
C6_ExistingIffRuleReason ==
    \A k \in Results :
        /\ cand_rows[k].status \in { "existing", "new" }
        /\ cand_rows[k].status = "existing"
               <=> cand_rows[k].reason \in ExistingReasons

\* the similarity rule replaced a carried baseline suggestion
C6_Witness ==
    \E k \in Results :
        /\ cand_rows[k].status = "existing"
        /\ cand_rows[k].reason = "author+title"
        /\ strip(base[k].matched_book_id) # <<>>
        /\ cand_rows[k].matched_book_id # strip(base[k].matched_book_id)

\* C7: every emitted result carries a non-empty reason code, also when the
\* segment text is empty, no rule fires and the status is 'new'.
C7_EveryResultHasReason ==
    \A k \in Results : cand_rows[k].reason # ""

\* base_id and base_id in by_id: the baseline candidate names a catalog entry
SuggestionCarried(k) ==
    /\ strip(base[k].matched_book_id) # <<>>
    /\ \E e \in 1..Len(cat) : cat[e].id = strip(base[k].matched_book_id)

\* C8: in every emitted result the matched id is non-empty if and only if the
\* status is 'existing' or the baseline candidate's suggestion was carried
\* forward.
C8_MatchedIdIffExistingOrSuggestion ==
    \A k \in Results :
        cand_rows[k].matched_book_id # <<>>
            <=> (cand_rows[k].status = "existing" \/ SuggestionCarried(k))

\* a 'new' result that carries the id of its baseline candidate
C8_Witness ==
    \E k \in Results :
        /\ cand_rows[k].status = "new"
        /\ SuggestionCarried(k)
        /\ cand_rows[k].matched_book_id = strip(base[k].matched_book_id)

\* the baseline candidate's own score lies in [0,1]
BaselineScoreInUnit(k) ==
    \A t \in base[k].match_score : 0 <= t /\ t <= 1000

\* C9: the score of every emitted result lies in [0,1] when the baseline
\* candidate's own score does.
C9_ScoreInUnitInterval ==
    \A k \in Results :
        BaselineScoreInUnit(k)
            => 0 <= cand_rows[k].match_score /\ cand_rows[k].match_score <= 1000

\* neither the ISBN rule nor the high-confidence baseline rule fires for k
NoEarlierRule(k) ==
    /\ IsbnRule(ResultText(k)) = 0
    /\ ~(SuggestionCarried(k)
         /\ GeHundredths(ParseScore(base[k].match_score), 84))

HasAuthorToken(k) == has_any_token(ResultText(k), author_tokens(cat))

HasPublisherToken(k) == has_any_token(ResultText(k), publisher_tokens(cat))

\* the scores of the catalog entries for the text of k, bonuses included
ScoresFor(k) ==
    LET text == ResultText(k)
        has_author == HasAuthorToken(k)
        has_pub == HasPublisherToken(k)
    IN  [e \in 1..Len(cat) |-> EntryScore(cat[e], text, has_author, has_pub)]

\* e is the maximum-scoring catalog entry: the first of the entries with the
\* highest score
IsBest(scores, e) ==
    /\ \A e2 \in DOMAIN scores : ~Gt(scores[e2], scores[e])
    /\ \A e2 \in 1..(e - 1) : Gt(scores[e], scores[e2])

AuthorCase(k, best_score) == HasAuthorToken(k) /\ GeHundredths(best_score, 75)

TitleCase(best_score) == GeHundredths(best_score, 88)

HasFieldsOf(row, e) ==
    /\ row.matched_book_id = cat[e].id
    /\ row.matched_title = cat[e].title
    /\ row.matched_author = cat[e].author
    /\ row.matched_publisher = cat[e].publisher

\* the similarity rule's verdict on result k with best entry e
SimilarityVerdict(k, e, best_score) ==
    IF AuthorCase(k, best_score) \/ TitleCase(best_score)
    THEN /\ cand_rows[k].status = "existing"
         /\ HasFieldsOf(cand_rows[k], e)
         /\ cand_rows[k].reason =
                IF AuthorCase(k, best_score) THEN "author+title"
                ELSE "title-only>=0.88"
    ELSE cand_rows[k].status = "new"

OwnRows(rows, k) ==
    { j \in 1..Len(rows) : /\ rows[j].source_path = base[k].source_path
                           /\ rows[j].segment_index = base[k].segment_index }

\* result k is built from the hint of candidate k, the OCR text of a segment
\* row with its key and the guesses of a refined row with its key, '' where
\* no row has the key
BuiltFromOwnSegment(k) ==
    /\ cand_rows[k].source_path = base[k].source_path
    /\ cand_rows[k].crop_path = base[k].crop_path
    /\ cand_rows[k].segment_index = base[k].segment_index
    /\ cand_rows[k].ocr_title_hint = base[k].ocr_title_hint
    /\ IF OwnRows(segs, k) = {} THEN cand_rows[k].ocr_text = <<>>
       ELSE \E j \in OwnRows(segs, k) : cand_rows[k].ocr_text = segs[j].ocr_text
    /\ IF OwnRows(refined, k) = {}
       THEN /\ cand_rows[k].guess_title = <<>>
            /\ cand_rows[k].guess_author = <<>>
            /\ cand_rows[k].guess_publisher = <<>>
       ELSE \E j \in OwnRows(refined, k) :
               /\ cand_rows[k].guess_title = refined[j].title_guess
               /\ cand_rows[k].guess_author = refined[j].author_guess
               /\ cand_rows[k].guess_publisher = refined[j].publisher_guess

Segmented == f_pc = "return" /\ fn = "vertical_segments"

\* no pixel of the image is dark under the threshold
AllLight(img, threshold) ==
    \A i \in 1..Len(img) : \A r \in 1..Len(img[i]) : img[i][r] >= threshold

AllDark(img, threshold) ==
    \A i \in 1..Len(img) : \A r \in 1..Len(img[i]) : img[i][r] < threshold

\* C12: vertical_segments returns at least one segment for every image and
\* every minimum width, threshold and margin; for an all-light image it
\* returns exactly one segment, the whole width.
C12_AtLeastOneSegment ==
    Segmented =>
        /\ Len(ret) >= 1
        /\ AllLight(arg.img, arg.threshold) => ret = << << 0, Len(arg.img) >> >>

\* an all-dark image with a margin of half the width or more
C12_Witness ==
    /\ Segmented
    /\ AllDark(arg.img, arg.threshold)
    /\ 2 * arg.margin >= Len(arg.img)
    /\ ret = << << 0, Len(arg.img) >> >>

\* the image is a solid dark band of a columns, a light gap of g columns and
\* a solid dark band of b columns, under the threshold of the call
IsTwoBands(a, g, b) ==
    /\ arg.img = Bands(a, g, b)
    /\ DarkGray < arg.threshold /\ LightGray >= arg.threshold
    /\ a >= arg.min_seg_width /\ b >= arg.min_seg_width
    /\ arg.margin = 0

TheTwoBands(a, g, b) == << << 0, a >>, << a + g, a + g + b >> >>

\* C13 as stated, a wide gap being one at least as wide as a segment has to
\* be: two solid dark bands of at least the minimum width around such a gap,
\* margin 0, give exactly the two bands as segments.
C13_TwoBandsTwoSegments ==
    Segmented =>
        \A a \in 1..Len(arg.img) : \A g \in 1..Len(arg.img) :
        \A b \in 1..Len(arg.img) :
            IsTwoBands(a, g, b) /\ g >= arg.min_seg_width
                => ret = TheTwoBands(a, g, b)

\* C13, amended: two solid dark bands of at least the minimum width around a
\* light gap that holds more than the lowest fifth of the columns
\* (g > floor((W - 1) / 5) for W columns), margin 0, give exactly the two
\* bands as segments.
C13_TwoBandsFifthGap ==
    Segmented =>
        \A a \in 1..Len(arg.img) : \A g \in 1..Len(arg.img) :
        \A b \in 1..Len(arg.img) :
            IsTwoBands(a, g, b) /\ g > (Len(arg.img) - 1) \div 5
                => ret = TheTwoBands(a, g, b)

\* two bands wider than the gap, found as two segments
C13_Witness ==
    /\ Segmented
    /\ \E a \in 2..Len(arg.img) : \E g \in 1..Len(arg.img) :
       \E b \in 2..Len(arg.img) :
          /\ IsTwoBands(a, g, b) /\ g > (Len(arg.img) - 1) \div 5
          /\ g < a /\ g < b
          /\ ret = TheTwoBands(a, g, b)

\* ------------------------------------------------------------------------
\* Properties of the gibberish scorers
\* ------------------------------------------------------------------------

Scored == f_pc = "return" /\ fn = "gibberish_score"

IsBlank(text) == text = None \/ \A i \in 1..Len(text) : text[i] \in Whitespace

\* the positions where a whitespace-delimited token of s starts
TokenStarts(s) ==
    { i \in 1..Len(s) : s[i] \notin Whitespace
                        /\ (i = 1 \/ s[i - 1] \in Whitespace) }

\* s[i..j] is a whitespace-delimited token of s
IsToken(s, i, j) ==
    /\ i \in TokenStarts(s)
    /\ \A k \in i..j : s[k] \notin Whitespace
    /\ j = Len(s) \/ s[j + 1] \in Whitespace

\* (a) length >= 12 and at most one vowel
HeuristicA(s) ==
    Len(s) >= 12 /\ Cardinality({i \in 1..Len(s) : s[i] \in Vowels}) <= 1

\* (b) the share of characters that are neither alphanumeric, whitespace nor
\* common punctuation exceeds pct percent
HeuristicB(s, pct) ==
    100 * Cardinality({i \in 1..Len(s) : IsSpecial(s[i])}) > pct * Len(s)

\* (c) a token of length >= 12 without vowel
HeuristicC(s) ==
    \E i \in 1..Len(s) : \E j \in (i + 11)..Len(s) :
        IsToken(s, i, j) /\ \A k \in i..j : s[k] \notin Vowels

\* (d) three or more backslashes
HeuristicD(s) == Cardinality({i \in 1..Len(s) : s[i] = "\\"}) >= 3

\* (e) the share of letters is below 0.35
HeuristicE(s) ==
    100 * Cardinality({i \in 1..Len(s) : s[i] \in Letters}) < 35 * Len(s)

\* (f) at least half of the tokens have length 1
HeuristicF(s) ==
    2 * Cardinality({i \in TokenStarts(s) : IsToken(s, i, i)})
        >= Cardinality(TokenStarts(s))

One(b) == IF b THEN 1 ELSE 0

HeuristicsAtoE(s, pct) ==
    One(HeuristicA(s)) + One(HeuristicB(s, pct)) + One(HeuristicC(s))
    + One(HeuristicD(s)) + One(HeuristicE(s))

\* C14: for a null or all-whitespace input gibberish_score returns the
\* highest score it returns for any input: no text scores higher than the
\* blank input, in the cleanup and in the quarantine variant.
C14_BlankScoresMaximum ==
    Scored =>
        /\ ret.cleanup_score <= cleanup_gibberish_score(<< " " >>)
        /\ ret.quarantine_score <= quarantine_gibberish_score(<< " " >>)

\* C14 (as the code has it): for a null or all-whitespace input
\* gibberish_score returns 3 in both variants, which makes the input
\* gibberish (3 >= 2); the score of a text is at most 5 in cleanup and at most
\* 6 in quarantine.
C14_BlankScoresThree ==
    Scored =>
        /\ IsBlank(arg) =>
              /\ ret.cleanup_score = 3 /\ ret.cleanup_gibberish
              /\ ret.quarantine_score = 3 /\ ret.quarantine_gibberish
        /\ ret.cleanup_score <= 5
        /\ ret.quarantine_score <= 6

\* an all-whitespace text has been scored
C14_Witness ==
    /\ Scored
    /\ arg = << " ", " " >>
    /\ ret.cleanup_score = 3

\* C15: for a non-blank text the score is the number of the heuristics (a)
\* to (e) it triggers, plus (f) in the quarantine variant, the bound of (b)
\* being 0.20 in cleanup and 0.22 in quarantine; looks_gibberish is score >=
\* 2; a blank input scores >= 3 and is gibberish; 'Der Steppenwolf' scores 0
\* and is not gibberish.
C15_ScoreCountsHeuristics ==
    Scored =>
        /\ ret.cleanup_gibberish <=> ret.cleanup_score >= 2
        /\ ret.quarantine_gibberish <=> ret.quarantine_score >= 2
        /\ IF IsBlank(arg)
           THEN /\ ret.cleanup_score >= 3 /\ ret.cleanup_gibberish
                /\ ret.quarantine_score >= 3 /\ ret.quarantine_gibberish
           ELSE /\ ret.cleanup_score = HeuristicsAtoE(strip(arg), 20)
                /\ ret.quarantine_score =
                       HeuristicsAtoE(strip(arg), 22)
                       + One(HeuristicF(strip(arg)))
        /\ arg = TitleClean =>
              /\ ret.cleanup_score = 0 /\ ~ret.cleanup_gibberish
              /\ ret.quarantine_score = 0 /\ ~ret.quarantine_gibberish

\* a non-blank text that triggers three of (a) to (e), and (f) as well
C15_Witness ==
    /\ Scored /\ ~IsBlank(arg)
    /\ HeuristicF(strip(arg))
    /\ ret.cleanup_score = 3
    /\ ret.quarantine_score = 4

\* C16: for any catalog and any combination of the quarantine flags, every
\* book the deletion policy of cleanup selects is among the candidates of
\* quarantine.
C16_QuarantineCoversCleanup ==
    pc = "quarantine_audited" =>
        \A b \in DOMAIN books : cleanup_selects(b) => b \in selected

\* ------------------------------------------------------------------------
\* Properties of the ISBN checks
\* ------------------------------------------------------------------------

IsbnChecked == f_pc = "return" /\ fn = "is_isbn"

\* the value of a character of an ISBN, X counting 10
IsbnVal(c) == IF c \in {"X", "x"} THEN 10 ELSE DigitVal(c)

\* the k-th of a set of positions
Nth(P, k) == CHOOSE i \in P : Cardinality({j \in P : j < i}) = k - 1

\* the ISBN-10 rule as stated: the sum of digit x position over the positions
\* 1..9 plus the check digit is 0 mod 11
StatedIsbn10(s) ==
    /\ Len(s) = 10
    /\ \A i \in 1..9 : s[i] \in Digits
    /\ s[10] \in Digits \cup {"X"}
    /\ (SumSeq([i \in 1..9 |-> i * DigitVal(s[i])]) + IsbnVal(s[10])) % 11 = 0

\* the ISBN-13 rule as stated, on a string of 13 digits
StatedIsbn13(s) ==
    /\ Len(s) = 13
    /\ \A i \in 1..13 : s[i] \in Digits
    /\ DigitVal(s[13]) =
          (10 - (SumSeq([i \in 1..12 |->
                    DigitVal(s[i]) * (IF i % 2 = 1 THEN 1 ELSE 3)]) % 10)) % 10

\* the ISBN-10 rule on the characters 0-9, X, x of s, in their order: ten of
\* them, nine digits first, and the sum of value x position over the positions
\* 1..10 is 0 mod 11
Isbn10OfCharacters(s) ==
    LET P == {i \in 1..Len(s) : s[i] \in Digits \cup {"X", "x"}} IN
    /\ Cardinality(P) = 10
    /\ \A k \in 1..9 : s[Nth(P, k)] \in Digits
    /\ SumSeq([k \in 1..10 |-> k * IsbnVal(s[Nth(P, k)])]) % 11 = 0

\* the ISBN-13 rule on the digits of s, in their order
Isbn13OfDigits(s) ==
    LET P == {i \in 1..Len(s) : s[i] \in Digits} IN
    /\ Cardinality(P) = 13
    /\ DigitVal(s[Nth(P, 13)]) =
          (10 - (SumSeq([k \in 1..12 |->
                    DigitVal(s[Nth(P, k)]) * (IF k % 2 = 1 THEN 1 ELSE 3)])
                 % 10)) % 10

Isbn13Hyphenated == <<"9","7","8","-","3","-","1","6","-","1","4","8","4","1","0","-","0">>
Isbn10WithX == <<"0","8","0","4","4","2","9","5","7","X">>
Isbn10Counting == <<"1","2","3","4","5","6","7","8","9","0">>

\* C17: is_isbn10 accepts exactly the 10-character strings of nine digits and
\* a digit or X whose sum of digit x position over 1..9 plus the check digit
\* is 0 mod 11; is_isbn13 accepts exactly the 13-digit strings whose last
\* digit is (10 - weighted sum mod 10) mod 10; '978-3-16-148410-0' and
\* '080442957X' validate and '1234567890' does not.
C17_ChecksumsAsStated ==
    IsbnChecked =>
        /\ ret.isbn10 <=> StatedIsbn10(arg)
        /\ ret.isbn13 <=> StatedIsbn13(arg)
        /\ arg = Isbn13Hyphenated => ret.isbn13
        /\ arg = Isbn10WithX => ret.isbn10
        /\ arg = Isbn10Counting => ~ret.isbn10

\* C17 (as the code has it): is_isbn10 looks only at the characters 0-9, X
\* and x of the string and accepts exactly when there are ten of them, the
\* first nine digits, and the sum of value x position over the positions 1..10
\* (X or x counting 10) is 0 mod 11; is_isbn13 looks only at the digits and
\* accepts exactly when there are 13 and the last equals (10 - weighted sum of
\* the first 12 mod 10) mod 10; '978-3-16-148410-0' and '080442957X' validate
\* and '1234567890' does not.
C17_ChecksumsOfCharacters ==
    IsbnChecked =>
        /\ ret.isbn10 <=> Isbn10OfCharacters(arg)
        /\ ret.isbn13 <=> Isbn13OfDigits(arg)
        /\ arg = Isbn13Hyphenated => ret.isbn13
        /\ arg = Isbn10WithX => ret.isbn10
        /\ arg = Isbn10Counting => ~ret.isbn10

\* the hyphenated ISBN-13 has been checked and accepted
C17_Witness ==
    /\ IsbnChecked
    /\ arg = Isbn13Hyphenated
    /\ ret.isbn13 /\ ~ret.isbn10

\* ------------------------------------------------------------------------
\* Properties of the OCR optimizer
\* ------------------------------------------------------------------------

OcrReturned == f_pc = "return" /\ fn = "best_ocr_text"

\* rotation and page segmentation mode of the k-th of the combinations: the
\* rotation changes every 48, the mode every 2 combinations
RotOf(k) == ROTS[((k - 1) \div (NumVariants * Len(PSMS) * NumCfgs)) + 1]
PsmOf(k) == PSMS[(((k - 1) \div NumCfgs) % Len(PSMS)) + 1]

\* the combinations whose text extraction did not fail
Successful == {k \in 1..NumCombos : OutcomeAt(arg, k) # OcrError}

\* the cleaned text and its quality, per combination
TextAt(k) == refine_clean(OutcomeAt(arg, k))
ScoreAt(k) == text_quality_score(TextAt(k))

\* the result is the first of the best of the scores in sc
IsFirstBest(sc) ==
    /\ \A j \in Successful : ~Gt(sc[j], ret.score)
    /\ IF \A j \in Successful : ~Gt(sc[j], Zero)
       THEN ret.txt = <<>> /\ ret.score = Zero
       ELSE \E k \in Successful :
               /\ sc[k] = ret.score /\ ret.txt = TextAt(k)
               /\ ret.rot = RotOf(k) /\ ret.psm = PsmOf(k)
               /\ \A j \in Successful : j < k => Gt(sc[k], sc[j])

\* C19: a failure of the text extraction in any combination never aborts the
\* search: no error is raised, every other combination is still tried, and
\* the result is the best of the successful ones (the first of them when
\* several are equally good); if every combination fails or yields empty
\* text, the result is the empty text with score 0.
C19_FailureNeverAborts ==
    OcrReturned =>
        /\ ~ret.raised
        /\ IsFirstBest([k \in 1..NumCombos |->
                          IF k \in Successful THEN ScoreAt(k) ELSE Zero])

\* the first combination fails and a later one gives the result
C19_Witness ==
    /\ OcrReturned
    /\ OutcomeAt(arg, 1) = OcrError
    /\ ret.txt # <<>> /\ ret.rot = 90 /\ ~ret.raised

\* every combination fails: empty text, score 0
C19_WitnessAllFail ==
    /\ OcrReturned
    /\ Successful = {}
    /\ ret.txt = <<>> /\ ret.score = Zero

\* ------------------------------------------------------------------------
\* Properties of the pipeline
\* ------------------------------------------------------------------------

\* the rows of a file for a segment of the photo
RowsOf(rows, idx) ==
    { i \in DOMAIN rows : rows[i].source_path = SourcePhoto
                          /\ rows[i].segment_index = idx }

\* the stages a segment has passed in the run under way
IsSegmented(idx) == RowsOf(segs, idx) # {}
IsOcrDoneAndGuessed(idx) == p_pc \in {"match", "done"} /\ RowsOf(refined, idx) # {}
IsMatched(idx) == p_pc \in {"match", "done"} /\ RowsOf(cand_rows, idx) # {}

\* C18: per segment the stages are visited in the order SEGMENTED, OCR_DONE,
\* GUESSED, MATCHED, each exactly once: a segment that is matched has passed
\* segmentation, OCR and guessing, each with exactly one row, also when its
\* crop is missing or unopenable at the OCR stage.
C18_MatchedOnlyAfterOcrAndGuess ==
    \A idx \in 1..2 :
        IsMatched(idx) =>
            /\ Cardinality(RowsOf(segs, idx)) = 1
            /\ IsOcrDoneAndGuessed(idx)
            /\ Cardinality(RowsOf(refined, idx)) = 1
            /\ Cardinality(RowsOf(cand_rows, idx)) = 1

C21_NoCopiesOfDeletedBook ==
    \A cp \in copies : cp.book_id \in DOMAIN books

\* ------------------------------------------------------------------------
\* Properties of the entity matcher: the order of the rules
\* ------------------------------------------------------------------------

\* no part of the text, read without its separators, is the ISBN of a
\* catalog entry
NoCataloguedIsbnIn(text) ==
    \A e \in 1..Len(cat) :
        CatalogIsbn(e) # <<>> =>
            \A i \in 1..Len(text) : \A j \in i..Len(text) :
                FlatIsbn(SubSeq(text, i, j)) # CatalogIsbn(e)

\* the baseline candidate of k names a catalog entry and has a score of at
\* least 0.84
BaselineHigh(k) ==
    /\ SuggestionCarried(k)
    /\ \E t \in base[k].match_score : t >= 840

\* the result of the high-confidence baseline rule for k
IsBaselineResult(k) ==
    /\ cand_rows[k].status = "existing"
    /\ cand_rows[k].matched_book_id = strip(base[k].matched_book_id)
    /\ cand_rows[k].reason = "baseline>=0.84"
    /\ cand_rows[k].match_score \in base[k].match_score

SimilarityReasons == { "author+title", "title-only>=0.88" }

\* C22: if no catalogued ISBN is found in the text and the baseline
\* candidate's id resolves in the catalog with a baseline score >= 0.84, the
\* result is 'existing' with the baseline id, reason 'baseline>=0.84' and the
\* baseline score, whatever the similarity scan would find; a result of the
\* similarity rule is emitted only when neither the ISBN rule nor the
\* baseline rule fired.
C22_BaselineBeforeSimilarity ==
    \A k \in Results :
        /\ (NoCataloguedIsbnIn(ResultText(k)) /\ BaselineHigh(k))
               => IsBaselineResult(k)
        /\ cand_rows[k].reason \in SimilarityReasons
               => (IsbnRule(ResultText(k)) = 0 /\ ~BaselineHigh(k))

\* the baseline rule decided although the similarity scan accepts another
\* catalog entry for the text
C22_Witness ==
    \E k \in Results : \E e \in 1..Len(cat) :
        /\ NoCataloguedIsbnIn(ResultText(k)) /\ BaselineHigh(k)
        /\ IsBaselineResult(k)
        /\ IsBest(ScoresFor(k), e)
        /\ AuthorCase(k, ScoresFor(k)[e]) \/ TitleCase(ScoresFor(k)[e])
        /\ cat[e].id # cand_rows[k].matched_book_id

\* ------------------------------------------------------------------------
\* Properties of the entity matcher: several ISBNs in one text
\* ------------------------------------------------------------------------

\* the checksum-valid ISBNs of the text of k, in text order
ValidIsbnsOf(k) == SelectSeq(FindAllIsbn(ResultText(k), 1), IsValidIsbn)

\* raw, without its separators, is a key of the catalog's ISBN map
IsCatalogued(raw) == by_isbn(cat, FlatIsbn(raw)) > 0

\* C23: when the segment text contains several checksum-valid ISBNs, the
\* ISBN rule matches on the first of them, in text order, that is in the
\* catalog's ISBN map: the result is 'existing' with reason 'isbn' for the
\* entry of that ISBN, also when a valid ISBN that is not catalogued stands
\* before it.
C23_FirstCataloguedIsbnMatches ==
    \A k \in Results :
        LET catalogued == SelectSeq(ValidIsbnsOf(k), IsCatalogued)
        IN  catalogued # <<>> =>
                IsIsbnResult(cand_rows[k],
                             by_isbn(cat, FlatIsbn(Head(catalogued))))

\* ------------------------------------------------------------------------
\* Properties of the spine segmenter: the fallback and the runs
\* ------------------------------------------------------------------------

\* the usable range of the call: the columns [lo, hi), counted from 0, that
\* remain after the margin is excluded on each side
UsableLo == SliceBound(Window(Len(arg.img), arg.margin)[1], Len(arg.img))

UsableHi == SliceBound(Window(Len(arg.img), arg.margin)[2], Len(arg.img))

\* the dark count of column x, counted from 0
DarkAt(x) == DarkCount(arg.img[x + 1], arg.threshold)

UsableDark == [i \in 1..(UsableHi - UsableLo) |-> DarkAt(UsableLo + i - 1)]

\* column x of the usable range is an ink column: its dark count lies above
\* the gap threshold, the 20th percentile of the dark counts
IsInk(x) ==
    /\ UsableLo <= x /\ x < UsableHi
    /\ 5 * DarkAt(x) > Percentile20Times5(UsableDark)

\* the columns [x, y) are a run of ink columns
IsInkRun(x, y) == x < y /\ \A c \in x..(y - 1) : IsInk(c)

\* no run of ink columns reaches the minimum segment width
NoWideRun ==
    \A x \in 0..Len(arg.img) : \A y \in 0..Len(arg.img) :
        IsInkRun(x, y) => y - x < arg.min_seg_width

\* C24 as stated: when no run of ink columns reaches the minimum segment
\* width, the single fallback segment spans the usable width, the columns
\* [margin, W - margin).
C24_FallbackSpansUsableWidth ==
    (Segmented /\ NoWideRun /\ arg.margin >= 0
     /\ Len(arg.img) - arg.margin > arg.margin)
        => ret = << << arg.margin, Len(arg.img) - arg.margin >> >>

\* C24, amended: when no run of ink columns reaches the minimum segment
\* width, the single fallback segment spans the whole image, the columns
\* [0, W), the margins included.
C24_FallbackSpansWholeImage ==
    (Segmented /\ NoWideRun) => ret = << << 0, Len(arg.img) >> >>

\* a fallback under a margin that leaves columns, with an ink run that is
\* too narrow
C24_Witness ==
    /\ Segmented /\ NoWideRun
    /\ arg.margin >= 1 /\ Len(arg.img) - arg.margin > arg.margin
    /\ \E x \in 0..Len(arg.img) : IsInk(x)
    /\ ret = << << 0, Len(arg.img) >> >>

\* the ink columns of the usable range
InkColumns == { x \in 0..(Len(arg.img) - 1) : IsInk(x) }

\* [x, y) is a maximal run of the columns ink of width at least w
IsWideMaximalRun(ink, x, y, w) ==
    /\ x < y /\ y - x >= w
    /\ \A c \in x..(y - 1) : c \in ink
    /\ (x - 1) \notin ink /\ y \notin ink

WideMaximalRuns(ink, W, w) ==
    { run \in (0..W) \X (0..W) : IsWideMaximalRun(ink, run[1], run[2], w) }

\* the list is ordered left to right, without overlap, inside the image
OrderedInside(segments, W) ==
    /\ \A k \in 1..Len(segments) :
          0 <= segments[k][1] /\ segments[k][1] < segments[k][2]
          /\ segments[k][2] <= W
    /\ \A k \in 1..(Len(segments) - 1) : segments[k][2] <= segments[k + 1][1]

\* the list is the fallback, or exactly the wide maximal runs
FallbackOrRuns(segments, runs, W) ==
    IF runs = {} THEN segments = << << 0, W >> >>
    ELSE /\ { segments[k] : k \in 1..Len(segments) } = runs
         /\ Len(segments) = Cardinality(runs)

\* C25: for every image and parameter setting the returned list is ordered
\* left to right, its segments are pairwise non-overlapping, each satisfies
\* 0 <= x0 < x1 <= W, each non-fallback segment is a maximal run of ink
\* columns of at least the minimum width inside the usable range, and every
\* such run is returned.
C25_SegmentsAreTheInkRuns ==
    Segmented =>
        /\ OrderedInside(ret, Len(arg.img))
        /\ FallbackOrRuns(ret, WideMaximalRuns(InkColumns, Len(arg.img),
                                               arg.min_seg_width),
                          Len(arg.img))

\* the statement of C25 for the calls with a margin that is not negative
SegmentsAreTheInkRunsUnlessNegativeMargin ==
    (Segmented /\ arg.margin >= 0) =>
        /\ OrderedInside(ret, Len(arg.img))
        /\ FallbackOrRuns(ret, WideMaximalRuns(InkColumns, Len(arg.img),
                                               arg.min_seg_width),
                          Len(arg.img))

\* ------------------------------------------------------------------------
\* Properties of the OCR optimizer: the maximum and the ties
\* ------------------------------------------------------------------------

PositionIn(seq, x) == CHOOSE i \in DOMAIN seq : seq[i] = x

\* preprocessing variant and blacklist variant of the k-th combination: the
\* variant changes every 8 combinations, the blacklist with every one
VariantOf(k) == (((k - 1) \div (Len(PSMS) * NumCfgs)) % NumVariants) + 1
BlacklistOf(k) == ((k - 1) % NumCfgs) + 1

\* rotation, preprocessing, mode and blacklist variant of combination k, by
\* their places in the lists the search draws them from
PlaceOf(k) ==
    << PositionIn(ROTS, RotOf(k)), VariantOf(k), PositionIn(PSMS, PsmOf(k)),
       BlacklistOf(k) >>

\* a comes before b: rotation first, then preprocessing, then mode, then
\* blacklist variant
PlaceBefore(a, b) ==
    \E i \in 1..4 : a[i] < b[i] /\ \A h \in 1..(i - 1) : a[h] = b[h]

\* the text a combination yields: nothing when its extraction failed
YieldAt(k) == IF k \in Successful THEN TextAt(k) ELSE <<>>

\* the result is the text and score of the first, in the order of the
\* places pl, of the combinations with the maximum of the scores sc
IsFirstMaximum(sc, pl) ==
    \E k \in 1..NumCombos :
        /\ sc[k] = ret.score /\ YieldAt(k) = ret.txt
        /\ Gt(sc[k], Zero) => (ret.rot = RotOf(k) /\ ret.psm = PsmOf(k))
        /\ \A j \in 1..NumCombos : ~Gt(sc[j], sc[k])
        /\ \A j \in 1..NumCombos :
              PlaceBefore(pl[j], pl[k]) => Gt(sc[k], sc[j])

\* C26: the optimizer returns the text and score of a combination whose
\* quality score is the maximum over all rotations, preprocessing variants,
\* recognition modes and blacklist variants (a failed extraction scoring 0);
\* when several combinations share the maximum it returns the first of them
\* in the order rotation, preprocessing, mode.
C26_ReturnsFirstMaximum ==
    OcrReturned =>
        IsFirstMaximum([k \in 1..NumCombos |->
                          IF k \in Successful THEN ScoreAt(k) ELSE Zero],
                       [k \in 1..NumCombos |-> PlaceOf(k)])

\* two texts of equal quality, under the first rotation: the one of the
\* first variant with the second mode is returned, not the one of the second
\* variant with the first mode
C26_Witness ==
    /\ OcrReturned
    /\ DOMAIN arg.at = TieCombinations
    /\ TextAt(3) # TextAt(9) /\ ScoreAt(3) = ScoreAt(9)
    /\ VariantOf(3) < VariantOf(9) /\ PsmOf(3) = PSMS[2] /\ PsmOf(9) = PSMS[1]
    /\ ret.txt = TextAt(3) /\ ret.psm = PSMS[2]

\* ------------------------------------------------------------------------
\* Properties of the field guessers
\* ------------------------------------------------------------------------

Guessed == f_pc = "return" /\ fn = "guess"

SameFraction(x, y) == x.n * y.d = y.n * x.d

\* the places of toks where a token of token_set stands for the first time
FirstKnown(toks, token_set) ==
    { i \in DOMAIN toks : /\ toks[i] \in token_set
                          /\ \A j \in 1..(i - 1) : toks[j] # toks[i] }

\* the tokens at the places of the set places, in text order
TokensAt(toks, places) ==
    [k \in 1..Cardinality(places) |->
        toks[CHOOSE i \in places :
                 Cardinality({j \in places : j < i}) = k - 1]]

\* the first tokens, at most limit, of toks that are in token_set, each once
FirstDistinctKnown(toks, token_set, limit) ==
    TokensAt(toks, { i \in FirstKnown(toks, token_set) :
                       Cardinality({j \in FirstKnown(toks, token_set) : j < i})
                           < limit })

\* (number of distinct tokens in token_set) / max(3, number of distinct tokens)
StatedConfidence(toks, token_set) ==
    [n |-> Cardinality(SeqToSet(toks) \cap token_set),
     d |-> Max(3, Cardinality(SeqToSet(toks)))]

\* the guess and the confidence of the statement for the tokens toks
IsStatedGuess(guess, conf, toks, token_set, limit) ==
    /\ guess = JoinTokens(FirstDistinctKnown(toks, token_set, limit))
    /\ SameFraction(conf, StatedConfidence(toks, token_set))
    /\ SeqToSet(toks) \cap token_set = {} => (guess = <<>> /\ conf.n = 0)

\* C27: for every text and token set the confidence of the author guess is
\* (number of distinct input tokens in the set) / max(3, number of distinct
\* input tokens) and the guess is the first 4 (at most) distinct matching
\* tokens in text order joined by spaces, the empty string with confidence 0
\* when no input token is in the set; the publisher guess follows the same
\* procedure with a cap of 3 tokens.
C27_GuessAndConfidence ==
    Guessed =>
        /\ IsStatedGuess(ret.author_guess, ret.author_conf, tokens(arg.text),
                         arg.token_set, 4)
        /\ IsStatedGuess(ret.publisher_guess, ret.publisher_conf,
                         tokens(arg.text), arg.token_set, 3)

\* the statement of C27 for the texts in which no token of the set is repeated
GuessAndConfidenceWithoutRepeats ==
    (Guessed /\ CountKnown(tokens(arg.text), arg.token_set)
                  = Cardinality(TokenSet(arg.text) \cap arg.token_set)) =>
        /\ IsStatedGuess(ret.author_guess, ret.author_conf, tokens(arg.text),
                         arg.token_set, 4)
        /\ IsStatedGuess(ret.publisher_guess, ret.publisher_conf,
                         tokens(arg.text), arg.token_set, 3)

\* ------------------------------------------------------------------------
\* Properties of the pipeline: the token sets of the catalog
\* ------------------------------------------------------------------------

\* the number of times token t stands in a column of the catalog
Frequency(rows, column, t) ==
    Cardinality({ i \in DOMAIN ColumnTokens(rows, column) :
                    ColumnTokens(rows, column)[i] = t })

\* the tokens of a column whose frequency lies in [2, 500] and whose length
\* exceeds 1
FrequencyFiltered(rows, column) ==
    { t \in SeqToSet(ColumnTokens(rows, column)) :
        /\ 2 <= Frequency(rows, column, t) /\ Frequency(rows, column, t) <= 500
        /\ Len(t) > 1 }

\* the refiner has guessed from the catalog and the matcher has matched
\* against it
BothConsulted == p_pc = "match" /\ refined # <<>> /\ cand_rows # <<>>

\* C28: the author-token and publisher-token sets the field guesser consults
\* and those the entity matcher consults, for its author-token test and its
\* bonuses, are the same catalog index: each holds exactly the catalog tokens
\* with a frequency in [2, 500] and a length above 1.
C28_OneFilteredTokenIndex ==
    BothConsulted =>
        /\ build_catalog_sets(cat).author = FrequencyFiltered(cat, "author")
        /\ build_catalog_sets(cat).publisher
               = FrequencyFiltered(cat, "publisher")
        /\ author_tokens(cat) = FrequencyFiltered(cat, "author")
        /\ publisher_tokens(cat) = FrequencyFiltered(cat, "publisher")

\* the part of C28 that concerns the field guesser
GuesserIndexIsFrequencyFiltered ==
    BothConsulted =>
        /\ build_catalog_sets(cat).author = FrequencyFiltered(cat, "author")
        /\ build_catalog_sets(cat).publisher
               = FrequencyFiltered(cat, "publisher")

\* ------------------------------------------------------------------------
\* Properties of the clean-up tools: the default run of quarantine
\* ------------------------------------------------------------------------

\* quarantine has chosen its candidates with none of the optional trigger
\* flags set; the books table is still as the run found it
DefaultRunAudited ==
    /\ pc = "quarantine_audited"
    /\ ~call.include_foto_erfasst_all /\ ~call.aggressive_titles
    /\ ~call.ignore_isbn

TitleUnreadable(b) == quarantine_looks_gibberish(books[b].title)

AuthorMissingOrUnreadable(b) ==
    strip(books[b].author) = <<>> \/ quarantine_looks_gibberish(books[b].author)

\* no ISBN, no publisher, no plausible year, gibberish title, empty or
\* gibberish author
ConservativeRuleHolds(b) ==
    /\ ~has_isbn(b) /\ ~has_publisher(b) /\ ~has_plausible_year(b)
    /\ TitleUnreadable(b) /\ AuthorMissingOrUnreadable(b)

\* a 'Foto erfasst' copy, no ISBN, gibberish title or empty or gibberish
\* author
FotoOcrRuleHolds(b) ==
    /\ has_foto_erfasst(b) /\ ~has_isbn(b)
    /\ TitleUnreadable(b) \/ AuthorMissingOrUnreadable(b)

\* C29 as stated: with none of the optional trigger flags set, quarantine
\* flags a book only when the conservative rule holds; a book that has a
\* publisher or a plausible publication year is never flagged.
C29_DefaultRunOnlyConservative ==
    DefaultRunAudited =>
        \A b \in selected :
            /\ ConservativeRuleHolds(b)
            /\ ~has_publisher(b) /\ ~has_plausible_year(b)

\* C29, amended: with none of the optional trigger flags set, quarantine
\* flags exactly the unprotected books for which the conservative rule holds
\* or which have a 'Foto erfasst' copy, no ISBN and a gibberish title or an
\* empty or gibberish author; a publisher or a plausible year protects a
\* book only if it has no such copy.
C29_DefaultRunConservativeOrFotoOcr ==
    DefaultRunAudited =>
        /\ \A b \in selected :
              ~Protected(b) /\ (ConservativeRuleHolds(b) \/ FotoOcrRuleHolds(b))
        /\ \A b \in DOMAIN books :
              (~Protected(b)
               /\ (ConservativeRuleHolds(b) \/ FotoOcrRuleHolds(b)))
                  => b \in selected
        /\ \A b \in selected :
              (has_publisher(b) \/ has_plausible_year(b))
                  => has_foto_erfasst(b)

\* a default run has flagged a book that has a publisher and a plausible year
C29_Witness ==
    /\ DefaultRunAudited
    /\ \E b \in selected :
          /\ has_publisher(b) /\ has_plausible_year(b)
          /\ FotoOcrRuleHolds(b) /\ ~ConservativeRuleHolds(b)

\* ------------------------------------------------------------------------
\* Properties of the clean-up tools: the audit files of quarantine
\* ------------------------------------------------------------------------

\* the audit file of stamp t records a book that is no longer in the database
RecordsRemovedBook(t) ==
    \E r \in csv_files[t] : r.book_id \notin DOMAIN books

\* the audit file of stamp t is left as it is by the step
AuditKept(t) ==
    t \in DOMAIN csv_files' /\ csv_files'[t] = csv_files[t]

\* C30: across any sequence of quarantine runs, the audit CSV written by a
\* run that removed books is never overwritten or truncated by a later run,
\* so the audit record of every removed book persists.
C30_AuditNeverOverwritten ==
    [][\A t \in DOMAIN csv_files : RecordsRemovedBook(t) => AuditKept(t)]_vars

\* the audit files of earlier minutes are left as they are by every step
AuditOfEarlierMinuteKept ==
    [][\A t \in DOMAIN csv_files : t # now => AuditKept(t)]_vars

====
